---- MODULE Spec2Model ----
(***************************************************************************)
(* A model of the storage-engine core of sqlite-fall2017: the B+Tree index *)
(* (b_plus_tree.cpp, b_plus_tree_internal_page.cpp, index_iterator.h), the *)
(* lock manager, the log manager and log recovery.                         *)
(*                                                                         *)
(* One module holds several specifications, one per subsystem; each leaves *)
(* the variables of the other subsystems unchanged.                        *)
(***************************************************************************)
EXTENDS Integers, Sequences, FiniteSets, TLC

VARIABLES
  pages,      \* B+Tree: page id -> page image (buffer pool + disk, as one store)
  root,       \* B+Tree: root_page_id_
  ref,        \* B+Tree: the reference map the index is compared with (history)
  last        \* B+Tree: the last completed call and what it returned (history)

VARIABLES
  lockTable,        \* LockManager: map_, rid -> WaitList (state_, granted_, lst_)
  latchOwner,       \* LockManager: the thread that holds latch_ for good, 0 if none
  strict2PL,        \* LockManager: strict_2PL_
  txnState,         \* Transaction: state_ of each transaction
  sharedLockSet,    \* Transaction: shared_lock_set_ of each transaction
  exclusiveLockSet, \* Transaction: exclusive_lock_set_ of each transaction
  lockPc,           \* where the thread of each transaction is inside a lock call
  promises,         \* the promises made so far: how many, and which are set
  lockLast          \* the lock call that returned last, and its result (history)

VARIABLES
  log_buffer,       \* LogManager: which of the two buffers log_buffer_ points to
  buffers,          \* LogManager: the contents of the two buffers
  log_buffer_size,  \* LogManager: log_buffer_size_
  flush_buffer_size,\* LogManager: flush_buffer_size_
  next_lsn,         \* LogManager: next_lsn_
  persistent_lsn,   \* LogManager: persistent_lsn_
  flush_thread_on,  \* LogManager: flush_thread_on
  ENABLE_LOGGING,   \* config.cpp: the global ENABLE_LOGGING
  latch,            \* LogManager: the thread that holds latch_, 0 if none
  append_latch,     \* LogManager: the thread that holds append_latch_, 0 if none
  disk,             \* DiskManager: the log file, as the cells written to it
  flushPc,          \* where the flush thread is inside FlushThread
  clientPc,         \* where each client thread is inside AppendLogRecord or Flush
  appended,         \* the LSNs whose AppendLogRecord has returned (history)
  logLast           \* per client, the call that returned last (history)

VARIABLES
  logFile,          \* DiskManager: the log file that recovery reads
  tablePage,        \* the table page as the buffer pool has it
  diskPage,         \* the table page as on disk
  txnTable,         \* the transactions of the run: state and prev_lsn_
  recovery          \* LogRecovery: offset_, log_buffer_, active_txn_,
                    \* lsn_mapping_, and where Redo and Undo are

VARIABLES
  mutex,            \* B+Tree: the thread that holds mutex_, 0 if none
  latches,          \* the page latches: the writer and the readers of each
  threads           \* the threads that call the index with a transaction:
                    \* where each is, its page id and its page set

VARIABLES
  size_limit,       \* ExtendibleHash: size_limit_, 0 before the constructor
  global_depth,     \* ExtendibleHash: global_depth_
  bucket_directory, \* ExtendibleHash: bucket_directory_, a bucket per slot
  buckets,          \* the Buckets the directory points to: local_depth_, map_
  hashRef,          \* the reference map of the hash table's keys (history)
  hashLast          \* the hash table call made last, and its result (history)

VARIABLES
  lst_,             \* LRUReplacer: lst_, most recent first
  map_,             \* LRUReplacer: the items map_ has an iterator for
  lruRef,           \* the reference recency of each item, 0 if absent (history)
  lruLast           \* the replacer call made last, and its result (history)

VARIABLES
  codec             \* a log record, the bytes AppendLogRecord writes for it and
                    \* what DeserializeLogRecord makes of them

VARIABLES
  pin_count,        \* BufferPoolManager: the pin count of each page
  iterator,         \* the IndexIterator a caller holds, if any
  pinLast           \* the index call made last, the pin counts before it, and
                    \* whether it is over (history)

treeVars == <<pages, root, ref, last>>

pinVars == <<pin_count, iterator, pinLast>>

lockVars == <<lockTable, latchOwner, strict2PL, txnState, sharedLockSet,
              exclusiveLockSet, lockPc, promises, lockLast>>

logVars == <<log_buffer, buffers, log_buffer_size, flush_buffer_size, next_lsn,
             persistent_lsn, flush_thread_on, latch, append_latch, disk,
             flushPc, clientPc, appended, logLast, ENABLE_LOGGING>>

recoveryVars == <<logFile, tablePage, diskPage, txnTable, recovery>>

concVars == <<mutex, latches, threads>>

hashVars == <<size_limit, global_depth, bucket_directory, buckets, hashRef, hashLast>>

lruVars == <<lst_, map_, lruRef, lruLast>>

codecVars == <<codec>>

vars == <<treeVars, concVars, lockVars, logVars, recoveryVars, hashVars, lruVars,
          codecVars, pinVars>>

\* What the calls of one subsystem leave alone.
nonTreeVars == <<concVars, lockVars, logVars, recoveryVars, hashVars, lruVars,
  codecVars, pinVars>>
nonIndexVars == <<lockVars, logVars, recoveryVars, hashVars, lruVars,
  codecVars, pinVars>>
nonLockVars == <<treeVars, concVars, logVars, recoveryVars, hashVars, lruVars,
  codecVars, pinVars>>
nonLogVars == <<treeVars, concVars, lockVars, recoveryVars, hashVars, lruVars,
  codecVars, pinVars>>
nonRecoveryVars == <<treeVars, concVars, lockVars, logVars, hashVars, lruVars,
  codecVars, pinVars>>
nonHashVars == <<treeVars, concVars, lockVars, logVars, recoveryVars, lruVars,
  codecVars, pinVars>>
nonLruVars == <<treeVars, concVars, lockVars, logVars, recoveryVars, hashVars,
  codecVars, pinVars>>
nonCodecVars == <<treeVars, concVars, lockVars, logVars, recoveryVars, hashVars,
  lruVars, pinVars>>

\* The calls of the index that count pins change treeVars and pinVars.
nonPinVars == <<concVars, lockVars, logVars, recoveryVars, hashVars, lruVars,
  codecVars>>

(***************************************************************************)
(* Bounds of the model and program constants.                              *)
(***************************************************************************)
MaxKey == 11                \* keys are 1..MaxKey
MapMaxKey == 5              \* SpecMap: keys are 1..MapMaxKey
MaxValue == 2               \* SpecMap: values are 1..MaxValue
MaxTxn == 3                 \* SpecLock: transactions are 1..MaxTxn
MaxRid == 1                 \* SpecLock: rids are 1..MaxRid
MaxPromise == 3             \* SpecLock: lock requests that are put on a wait queue
MaxClient == 1               \* SpecLog: client threads are 1..MaxClient
MaxAppender == 2             \* SpecAppend: appending threads are 1..MaxAppender
TupleBytes == {0, 1}          \* SpecCodec: the bytes of a tuple's data
MaxTupleLen == 4             \* SpecCodec: bytes of a tuple's data
MaxCodecLsn == 1             \* SpecCodec: LSNs of a record
MaxLsn == 4                  \* SpecLog: records appended, LSNs 0..MaxLsn-1
LogBufferSize == 3           \* LOG_BUFFER_SIZE, in records
MaxLogTxn == 2               \* SpecRecovery: transactions are 1..MaxLogTxn
MaxNewPage == 1              \* SpecScan: the NEWPAGE records of a run
MaxTuple == 2                \* SpecRecovery: RIDs are 1..MaxTuple
HashBits == 2                \* SpecHash: keys are 0..2^HashBits-1, hashes have HashBits bits
MaxSizeLimit == 2            \* SpecHash: the bucket size given to the constructor is 1..MaxSizeLimit
MaxHashValue == 2            \* SpecHash: values are 1..MaxHashValue
MaxItem == 4                 \* SpecLru: items are 1..MaxItem
MaxInserter == 2              \* SpecConcurrent: inserting threads are 1..MaxInserter
MaxInsertKey == 12            \* SpecConcurrent: the keys the threads insert are 1..MaxInsertKey
MaxReaderKey == 1             \* SpecConcurrent: the keys the reader looks up are 1..MaxReaderKey
MaxRemoveKey == 2             \* SpecTxn: the keys the remover removes are 1..MaxRemoveKey
MaxTxnKey == 7                \* SpecTxn: the keys thread 1 inserts are 1..MaxTxnKey
MaxPinKey == 6              \* SpecPin: the keys of the caller are 1..MaxPinKey
MaxPin == 2                 \* SpecPin: Begin is called while every pin count is below MaxPin
MaxPages == 11              \* page ids handed out by the buffer pool: 1..MaxPages

LeafMaxSize == 4             \* entries that fit a leaf page
InternalSlots == 4           \* entries that fit an internal page

INVALID_PAGE_ID == -1

Keys == 1..MaxKey
PageIds == 1..MaxPages
NoKey == 0                  \* the unused key of slot 0 of an internal page

(***************************************************************************)
(* Pages.  arr is the entry array, arr[i+1] being the code's array[i]; an  *)
(* entry is <<key, value>>, the value of an internal page's entry being a  *)
(* child page id.  Len(arr) may exceed size: the slots past size are the   *)
(* bytes the code leaves behind.                                           *)
(***************************************************************************)
FreePage == [isLeaf |-> FALSE, size |-> 0, maxSize |-> 0, parent |-> INVALID_PAGE_ID,
             next |-> INVALID_PAGE_ID, prev |-> INVALID_PAGE_ID, arr |-> <<>>, live |-> FALSE]

LeafInit(parent_id) ==
  [isLeaf |-> TRUE, size |-> 0, maxSize |-> LeafMaxSize, parent |-> parent_id,
   next |-> INVALID_PAGE_ID, prev |-> INVALID_PAGE_ID, arr |-> <<>>, live |-> TRUE]

InternalInit(parent_id) ==
  [isLeaf |-> FALSE, size |-> 0, maxSize |-> (InternalSlots \div 2) * 2, parent |-> parent_id,
   next |-> INVALID_PAGE_ID, prev |-> INVALID_PAGE_ID, arr |-> <<>>, live |-> TRUE]

IsRootPage(p) == p.parent = INVALID_PAGE_ID

GetMinSize(p) ==
  IF IsRootPage(p) THEN (IF p.isLeaf THEN 1 ELSE 2) ELSE (p.maxSize + 1) \div 2

KeyAt(p, index) == p.arr[index + 1][1]
ValueAt(p, index) == p.arr[index + 1][2]

SetKeyAt(p, index, key) == [p EXCEPT !.arr[index + 1] = <<key, @[2]>>]
SetValueAt(p, index, v) == [p EXCEPT !.arr[index + 1] = <<@[1], v>>]

\* The entries in use.
Entries(p) == SubSeq(p.arr, 1, p.size)

\* The least i in lo..hi-1 with P(i), hi when there is none.
RECURSIVE ValueIndexFrom(_, _, _)
ValueIndexFrom(p, value, i) ==
  IF i >= p.size THEN -1
  ELSE IF ValueAt(p, i) = value THEN i
  ELSE ValueIndexFrom(p, value, i + 1)

ValueIndex(p, value) == ValueIndexFrom(p, value, 0)

(***************************************************************************)
(* The buffer pool, as far as the index uses it: NewPage hands out a page  *)
(* id that is not in use, DeletePage gives it back.                        *)
(***************************************************************************)
FreeIds(pg) == {i \in PageIds : ~pg[i].live}

NewPageId(pg) == CHOOSE i \in FreeIds(pg) : \A j \in FreeIds(pg) : i <= j

DeletePage(pg, pid) == [pg EXCEPT ![pid] = FreePage]

(***************************************************************************)
(* b_plus_tree_internal_page.cpp                                           *)
(***************************************************************************)
\* A variant of the search: for the first separator that is greater than
\* key.
RECURSIVE InternalSearchGreater(_, _, _, _)
InternalSearchGreater(p, key, start, end) ==
  IF start < end
  THEN LET mid == start + (end - start) \div 2
       IN  IF KeyAt(p, mid) <= key
           THEN InternalSearchGreater(p, key, mid + 1, end)
           ELSE InternalSearchGreater(p, key, start, mid)
  ELSE start

\* Lookup: binary search over array[1..size) for the first separator that
\* is not less than key; the child of the slot before it.
RECURSIVE InternalSearch(_, _, _, _)
InternalSearch(p, key, start, end) ==
  IF start < end
  THEN LET mid == start + (end - start) \div 2
       IN  IF KeyAt(p, mid) < key
           THEN InternalSearch(p, key, mid + 1, end)
           ELSE InternalSearch(p, key, start, mid)
  ELSE start

InternalLookup(p, key) == ValueAt(p, InternalSearch(p, key, 1, p.size) - 1)

PopulateNewRoot(p, old_value, new_key, new_value) ==
  [p EXCEPT !.arr = <<<<NoKey, old_value>>, <<new_key, new_value>>>>,
            !.size = @ + 2]

InsertNodeAfter(p, old_value, new_key, new_value) ==
  LET ret == ValueIndex(p, old_value)
  IN  [p EXCEPT !.arr = SubSeq(p.arr, 1, ret + 1) \o <<<<new_key, new_value>>>>
                          \o SubSeq(p.arr, ret + 2, p.size),
                !.size = @ + 1]

\* A variant that leaves the children's parent_page_id as it was.
ReparentNone(pg, children, parent_id) == pg

\* Every page in the sequence of page ids gets parent_id as its parent.
RECURSIVE Reparent(_, _, _)
Reparent(pg, children, parent_id) ==
  IF children = <<>> THEN pg
  ELSE Reparent([pg EXCEPT ![Head(children)].parent = parent_id],
                Tail(children), parent_id)

ChildIds(p) == [i \in 1..p.size |-> p.arr[i][2]]

InternalMoveHalfTo(pg, this, recipient) ==
  LET node   == pg[this]
      start  == node.maxSize \div 2
      length == node.size
      moved  == SubSeq(node.arr, start + 1, length)
      pg1    == [pg EXCEPT ![recipient].arr = moved,
                           ![recipient].size = @ + (length - start),
                           ![this].size = start,
                           ![this].arr = SubSeq(node.arr, 1, start)]
  IN  Reparent(pg1, ChildIds(pg1[recipient]), recipient)

\* Remove(index): the entries after index move down one slot; the last slot
\* in use keeps its bytes.
InternalRemove(p, index) ==
  [p EXCEPT !.arr = SubSeq(p.arr, 1, index) \o SubSeq(p.arr, index + 2, p.size)
                      \o <<p.arr[p.size]>>,
            !.size = @ - 1]

FirstKey(p) == p.arr[2][1]

InternalMoveAllTo(pg, this, recipient, index_in_parent) ==
  LET node == pg[this]
      rec  == pg[recipient]
      key  == KeyAt(pg[node.parent], index_in_parent)
      mine == Entries(node)
      arr1 == IF FirstKey(node) < FirstKey(rec)
              THEN mine \o <<<<key, rec.arr[1][2]>>>> \o SubSeq(rec.arr, 2, rec.size)
              ELSE Entries(rec) \o <<<<key, mine[1][2]>>>> \o SubSeq(mine, 2, node.size)
      pg1  == [pg EXCEPT ![recipient].arr = arr1,
                         ![recipient].size = @ + node.size]
  IN  Reparent(pg1, ChildIds(node), recipient)

InternalMoveFirstToEndOf(pg, this, recipient) ==
  LET node   == pg[this]
      rec    == pg[recipient]
      first  == node.arr[1]
      rest   == SubSeq(node.arr, 2, node.size)
      parent == pg[node.parent]
      index  == ValueIndex(parent, this)
      pg1    == [pg EXCEPT
                   ![recipient].arr = Entries(rec) \o <<<<KeyAt(parent, index), first[2]>>>>,
                   ![recipient].size = @ + 1,
                   ![this].arr = rest,
                   ![this].size = @ - 1,
                   ![node.parent] = SetKeyAt(parent, index, rest[1][1])]
  IN  [pg1 EXCEPT ![first[2]].parent = recipient]

InternalMoveLastToFrontOf(pg, this, recipient, parent_index) ==
  LET node   == pg[this]
      rec    == pg[recipient]
      lastE  == node.arr[node.size]
      parent == pg[node.parent]
      index  == ValueIndex(parent, recipient)
      pg1    == [pg EXCEPT
                   ![recipient].arr = <<lastE>> \o <<<<KeyAt(parent, index), rec.arr[1][2]>>>>
                                        \o SubSeq(rec.arr, 2, rec.size),
                   ![recipient].size = @ + 1,
                   ![this].arr = SubSeq(node.arr, 1, node.size - 1),
                   ![this].size = @ - 1,
                   ![node.parent] = SetKeyAt(parent, index, lastE[1])]
  IN  [pg1 EXCEPT ![lastE[2]].parent = recipient]

(***************************************************************************)
(* The leaf page.  b_plus_tree_leaf_page.h declares these methods; they    *)
(* are modelled from the description of the leaf page.  A separator in the *)
(* parent is the greatest key of the leaf on its left, as InsertIntoLeaf   *)
(* sets it, so a redistribution leaves the donor's or the receiver's last  *)
(* key there.                                                              *)
(***************************************************************************)
RECURSIVE LeafKeyIndexFrom(_, _, _)
LeafKeyIndexFrom(p, key, i) ==
  IF i >= p.size THEN p.size
  ELSE IF KeyAt(p, i) >= key THEN i
  ELSE LeafKeyIndexFrom(p, key, i + 1)

LeafKeyIndex(p, key) == LeafKeyIndexFrom(p, key, 0)

LeafHasKey(p, key) ==
  LET i == LeafKeyIndex(p, key) IN i < p.size /\ KeyAt(p, i) = key

\* Lookup: <<found, value>>.
LeafLookup(p, key) ==
  IF LeafHasKey(p, key) THEN <<TRUE, ValueAt(p, LeafKeyIndex(p, key))>>
  ELSE <<FALSE, 0>>

\* Insert: the page after the call; its size is what the call returns.
LeafInsert(p, key, value) ==
  IF LeafHasKey(p, key) THEN p
  ELSE LET i == LeafKeyIndex(p, key)
       IN  [p EXCEPT !.arr = SubSeq(p.arr, 1, i) \o <<<<key, value>>>>
                               \o SubSeq(p.arr, i + 1, p.size),
                     !.size = @ + 1]

LeafRemoveAndDeleteRecord(p, key) ==
  IF ~LeafHasKey(p, key) THEN p
  ELSE LET i == LeafKeyIndex(p, key)
       IN  [p EXCEPT !.arr = SubSeq(p.arr, 1, i) \o SubSeq(p.arr, i + 2, p.size),
                     !.size = @ - 1]

LeafMoveHalfTo(pg, this, recipient) ==
  LET node  == pg[this]
      start == node.size \div 2
      pg1   == [pg EXCEPT ![recipient].arr = SubSeq(node.arr, start + 1, node.size),
                          ![recipient].size = node.size - start,
                          ![recipient].next = node.next,
                          ![recipient].prev = this,
                          ![this].arr = SubSeq(node.arr, 1, start),
                          ![this].size = start,
                          ![this].next = recipient]
  IN  IF node.next = INVALID_PAGE_ID THEN pg1
      ELSE [pg1 EXCEPT ![node.next].prev = recipient]

LeafMoveAllTo(pg, this, recipient) ==
  LET node == pg[this]
      rec  == pg[recipient]
  IN  IF KeyAt(node, 0) < KeyAt(rec, 0)
      THEN LET pg1 == [pg EXCEPT ![recipient].arr = Entries(node) \o Entries(rec),
                                 ![recipient].size = @ + node.size,
                                 ![recipient].prev = node.prev]
           IN  IF node.prev = INVALID_PAGE_ID THEN pg1
               ELSE [pg1 EXCEPT ![node.prev].next = recipient]
      ELSE LET pg1 == [pg EXCEPT ![recipient].arr = Entries(rec) \o Entries(node),
                                 ![recipient].size = @ + node.size,
                                 ![recipient].next = node.next]
           IN  IF node.next = INVALID_PAGE_ID THEN pg1
               ELSE [pg1 EXCEPT ![node.next].prev = recipient]

LeafMoveFirstToEndOf(pg, this, recipient) ==
  LET node   == pg[this]
      rec    == pg[recipient]
      first  == node.arr[1]
      parent == pg[node.parent]
      index  == ValueIndex(parent, this)
  IN  [pg EXCEPT ![recipient].arr = Entries(rec) \o <<first>>,
                 ![recipient].size = @ + 1,
                 ![this].arr = SubSeq(node.arr, 2, node.size),
                 ![this].size = @ - 1,
                 ![node.parent] = SetKeyAt(parent, index, first[1])]

LeafMoveLastToFrontOf(pg, this, recipient, parentIndex) ==
  LET node   == pg[this]
      rec    == pg[recipient]
      lastE  == node.arr[node.size]
      parent == pg[node.parent]
      index  == ValueIndex(parent, recipient)
  IN  [pg EXCEPT ![recipient].arr = <<lastE>> \o Entries(rec),
                 ![recipient].size = @ + 1,
                 ![this].arr = SubSeq(node.arr, 1, node.size - 1),
                 ![this].size = @ - 1,
                 ![node.parent] = SetKeyAt(parent, index, KeyAt(node, node.size - 2))]


(***************************************************************************)
(* b_plus_tree.cpp, called without a transaction (no latches are taken).   *)
(* A tree is [pg |-> the pages, root |-> root_page_id_].                   *)
(***************************************************************************)
IsEmpty(rt) == rt = INVALID_PAGE_ID

\* The descent of FindLeafPage from page_id down to a leaf.
RECURSIVE Descend(_, _, _, _)
Descend(pg, page_id, key, leftMost) ==
  IF pg[page_id].isLeaf THEN page_id
  ELSE Descend(pg,
               IF leftMost THEN ValueAt(pg[page_id], 0)
               ELSE InternalLookup(pg[page_id], key),
               key, leftMost)

\* FindLeafPage: the leaf's page id, INVALID_PAGE_ID standing for the null
\* pointer returned for an empty tree.
FindLeafPage(t, key, leftMost) ==
  IF IsEmpty(t.root) THEN INVALID_PAGE_ID
  ELSE Descend(t.pg, t.root, key, leftMost)

\* GetValue: [returned, found, value]; it does not return when FindLeafPage
\* hands it the null pointer (assert(false), or the null page is read).
GetValue(t, key) ==
  LET leaf == FindLeafPage(t, key, FALSE)
  IN  IF leaf = INVALID_PAGE_ID
      THEN [returned |-> FALSE, found |-> FALSE, value |-> 0]
      ELSE LET r == LeafLookup(t.pg[leaf], key)
           IN  [returned |-> TRUE, found |-> r[1], value |-> r[2]]

\* Split: a new page with node's parent, and half of node moved to it.
\* [pg, new].
Split(pg, node) ==
  LET page_id == NewPageId(pg)
      pg1 == [pg EXCEPT ![page_id] =
                IF pg[node].isLeaf THEN LeafInit(pg[node].parent)
                ELSE InternalInit(pg[node].parent)]
  IN  [pg  |-> IF pg[node].isLeaf THEN LeafMoveHalfTo(pg1, node, page_id)
               ELSE InternalMoveHalfTo(pg1, node, page_id),
       new |-> page_id]

RECURSIVE InsertIntoParent(_, _, _, _)
InsertIntoParent(t, old_node, key, new_node) ==
  LET parent_pid == t.pg[old_node].parent
  IN  IF parent_pid = INVALID_PAGE_ID
      THEN LET pid == NewPageId(t.pg)
           IN  [pg   |-> [t.pg EXCEPT
                            ![pid] = PopulateNewRoot(InternalInit(INVALID_PAGE_ID),
                                                     old_node, key, new_node),
                            ![old_node].parent = pid,
                            ![new_node].parent = pid],
                root |-> pid]
      ELSE LET pg1 == [t.pg EXCEPT ![parent_pid] =
                         InsertNodeAfter(@, old_node, key, new_node)]
           IN  IF pg1[parent_pid].size > pg1[parent_pid].maxSize
               THEN LET sp == Split(pg1, parent_pid)
                    IN  InsertIntoParent([pg |-> sp.pg, root |-> t.root],
                                         parent_pid, KeyAt(sp.pg[sp.new], 0), sp.new)
               ELSE [pg |-> pg1, root |-> t.root]

\* A variant of the separator: the first key of the right leaf; the
\* separator invariant of the code must tell it from LeafSeparator.
LeafSeparatorFirstOfRight(left_leaf, right_leaf) == KeyAt(right_leaf, 0)

\* The separator InsertIntoLeaf hands to InsertIntoParent after a leaf split.
LeafSeparator(left_leaf, right_leaf) == KeyAt(left_leaf, left_leaf.size - 1)

\* InsertIntoLeaf from the leaf FindLeafPage has returned on: [t, ret].
InsertIntoLeafAt(t, leaf, key, value) ==
  LET osize    == t.pg[leaf].size
      pg1      == [t.pg EXCEPT ![leaf] = LeafInsert(@, key, value)]
      new_size == pg1[leaf].size
  IN  IF new_size > pg1[leaf].maxSize
      THEN LET sp == Split(pg1, leaf)
           IN  [t   |-> InsertIntoParent([pg |-> sp.pg, root |-> t.root], leaf,
                                         LeafSeparator(sp.pg[leaf], sp.pg[sp.new]),
                                         sp.new),
                ret |-> osize # new_size]
      ELSE [t |-> [pg |-> pg1, root |-> t.root], ret |-> osize # new_size]

\* InsertIntoLeaf: [t, ret].
InsertIntoLeaf(t, key, value) ==
  InsertIntoLeafAt(t, FindLeafPage(t, key, FALSE), key, value)

StartNewTree(t, key, value) ==
  LET page_id == NewPageId(t.pg)
      t1 == IF t.root = INVALID_PAGE_ID
            THEN [pg   |-> [t.pg EXCEPT ![page_id] = LeafInit(INVALID_PAGE_ID)],
                  root |-> page_id]
            ELSE t
  IN  InsertIntoLeaf(t1, key, value).t

\* Insert: [t, ret].
Insert(t, key, value) ==
  IF IsEmpty(t.root) THEN [t |-> StartNewTree(t, key, value), ret |-> TRUE]
  ELSE InsertIntoLeaf(t, key, value)

\* A variant of AdjustRoot that leaves an empty root leaf in place.
AdjustRootKeepingLeaf(t, old_root_node) ==
  LET node == t.pg[old_root_node]
  IN  IF ~node.isLeaf /\ node.size = 1
      THEN LET new_root == ValueAt(node, 0)
           IN  [t   |-> [pg   |-> [t.pg EXCEPT ![new_root].parent = INVALID_PAGE_ID],
                         root |-> new_root],
                ret |-> TRUE]
      ELSE [t |-> t, ret |-> FALSE]

\* AdjustRoot: [t, ret], ret saying whether the old root is to be deleted.
AdjustRoot(t, old_root_node) ==
  LET node == t.pg[old_root_node]
  IN  IF node.isLeaf
      THEN IF node.size < GetMinSize(node)
           THEN [t |-> [pg |-> t.pg, root |-> INVALID_PAGE_ID], ret |-> TRUE]
           ELSE [t |-> t, ret |-> FALSE]
      ELSE IF node.size = 1
           THEN LET new_root == ValueAt(node, 0)
                IN  [t   |-> [pg   |-> [t.pg EXCEPT ![new_root].parent = INVALID_PAGE_ID],
                              root |-> new_root],
                     ret |-> TRUE]
           ELSE [t |-> t, ret |-> FALSE]

\* A variant of Redistribute that moves two entries instead of one.
RedistributeTwo(pg, neighbor_node, node, index) ==
  IF index = 0
  THEN IF pg[node].isLeaf
       THEN LeafMoveFirstToEndOf(LeafMoveFirstToEndOf(pg, neighbor_node, node),
                                 neighbor_node, node)
       ELSE InternalMoveFirstToEndOf(InternalMoveFirstToEndOf(pg, neighbor_node, node),
                                     neighbor_node, node)
  ELSE IF pg[node].isLeaf
       THEN LeafMoveLastToFrontOf(LeafMoveLastToFrontOf(pg, neighbor_node, node, index),
                                  neighbor_node, node, index)
       ELSE InternalMoveLastToFrontOf(
              InternalMoveLastToFrontOf(pg, neighbor_node, node, index),
              neighbor_node, node, index)

\* Redistribute: index 0 takes the neighbour's first entry, otherwise its last.
Redistribute(pg, neighbor_node, node, index) ==
  IF index = 0
  THEN IF pg[node].isLeaf THEN LeafMoveFirstToEndOf(pg, neighbor_node, node)
       ELSE InternalMoveFirstToEndOf(pg, neighbor_node, node)
  ELSE IF pg[node].isLeaf THEN LeafMoveLastToFrontOf(pg, neighbor_node, node, index)
       ELSE InternalMoveLastToFrontOf(pg, neighbor_node, node, index)

MoveAllTo(pg, node, recipient, index_in_parent) ==
  IF pg[node].isLeaf THEN LeafMoveAllTo(pg, node, recipient)
  ELSE InternalMoveAllTo(pg, node, recipient, index_in_parent)

\* A variant of Coalesce that merges into the left page of the pair always:
\* with node the leftmost child, the neighbour's entries go to node.
CoalesceIntoLeft(pg, neighbor_node, node, parent, index) ==
  IF index = 0
  THEN LET pg1 == MoveAllTo(pg, node, neighbor_node, ValueIndex(pg[parent], node))
       IN  [pg1 EXCEPT ![parent] = InternalRemove(@, ValueIndex(@, node))]
  ELSE LET pg1 == MoveAllTo(pg, neighbor_node, node, ValueIndex(pg[parent], neighbor_node))
       IN  [pg1 EXCEPT ![parent] = InternalRemove(@, ValueIndex(@, neighbor_node))]

\* Coalesce: node's entries go to neighbor_node, and the parent loses one
\* entry: node's (index 0) or the neighbour's, whose page takes node's slot.
Coalesce(pg, neighbor_node, node, parent, index) ==
  IF index = 0
  THEN LET pg1 == MoveAllTo(pg, node, neighbor_node, ValueIndex(pg[parent], node))
       IN  [pg1 EXCEPT ![parent] = InternalRemove(@, ValueIndex(@, node))]
  ELSE LET pg1 == MoveAllTo(pg, node, neighbor_node, ValueIndex(pg[parent], neighbor_node))
           pg2 == [pg1 EXCEPT ![parent] = InternalRemove(@, ValueIndex(@, neighbor_node))]
       IN  [pg2 EXCEPT ![parent] = SetValueAt(@, ValueIndex(@, node), neighbor_node)]

\* CoalesceOrRedistribute: [t, ret], ret saying whether node is to be deleted.
RECURSIVE CoalesceOrRedistribute(_, _)
CoalesceOrRedistribute(t, node) ==
  LET pg        == t.pg
      parent_id == pg[node].parent
  IN  IF pg[node].size >= GetMinSize(pg[node]) THEN [t |-> t, ret |-> FALSE]
      ELSE IF parent_id = INVALID_PAGE_ID THEN AdjustRoot(t, node)
      ELSE
        LET parent    == pg[parent_id]
            idx       == ValueIndex(parent, node)
            hasLeft   == idx >= 1
            left_sib  == IF hasLeft THEN ValueAt(parent, idx - 1) ELSE INVALID_PAGE_ID
            hasRight  == idx + 1 < parent.size
            right_sib == IF hasRight THEN ValueAt(parent, idx + 1) ELSE INVALID_PAGE_ID
        IN  IF hasLeft /\ pg[left_sib].size > GetMinSize(pg[left_sib])
            THEN [t   |-> [pg |-> Redistribute(pg, left_sib, node, 1), root |-> t.root],
                  ret |-> FALSE]
            ELSE IF hasRight /\ pg[right_sib].size > GetMinSize(pg[right_sib])
            THEN [t   |-> [pg |-> Redistribute(pg, right_sib, node, 0), root |-> t.root],
                  ret |-> FALSE]
            ELSE
              LET pg1 == IF hasLeft
                         THEN Coalesce(pg, left_sib, node, parent_id, 0)
                         ELSE Coalesce(pg, right_sib, node, parent_id, 1)
                  r   == CoalesceOrRedistribute([pg |-> pg1, root |-> t.root], parent_id)
              IN  [t   |-> IF r.ret
                           THEN [pg |-> DeletePage(r.t.pg, parent_id), root |-> r.t.root]
                           ELSE r.t,
                   ret |-> TRUE]

\* Remove: the tree after the call.
Remove(t, key) ==
  IF IsEmpty(t.root) THEN t
  ELSE LET leaf == FindLeafPage(t, key, FALSE)
           pg1  == [t.pg EXCEPT ![leaf] = LeafRemoveAndDeleteRecord(@, key)]
           t1   == [pg |-> pg1, root |-> t.root]
       IN  IF pg1[leaf].size < GetMinSize(pg1[leaf])
           THEN LET r == CoalesceOrRedistribute(t1, leaf)
                IN  IF r.ret
                    THEN [pg |-> DeletePage(r.t.pg, leaf), root |-> r.t.root]
                    ELSE r.t
           ELSE t1

(***************************************************************************)
(* index_iterator.h, index_iterator.cpp and BPlusTree::Begin.              *)
(* An iterator is [leaf_page, pos, end].                                   *)
(***************************************************************************)
IndexIterator(pg, page_id, idx) ==
  [leaf_page |-> page_id, pos |-> idx, end |-> pg[page_id].size <= idx]

Begin(t) == IndexIterator(t.pg, FindLeafPage(t, NoKey, TRUE), 0)

isEnd(it) == it.end

Deref(pg, it) == pg[it.leaf_page].arr[it.pos + 1]

\* A variant of operator++ that ends at the end of its leaf.
AdvanceWithinLeaf(pg, it) ==
  LET pos1 == it.pos + 1
  IN  IF pos1 >= pg[it.leaf_page].size
      THEN [it EXCEPT !.pos = pos1, !.end = TRUE]
      ELSE [it EXCEPT !.pos = pos1]

\* operator++
Advance(pg, it) ==
  LET pos1 == it.pos + 1
  IN  IF pos1 >= pg[it.leaf_page].size
      THEN LET next == pg[it.leaf_page].next
           IN  IF next = INVALID_PAGE_ID
               THEN [it EXCEPT !.pos = pos1, !.end = TRUE]
               ELSE [leaf_page |-> next, pos |-> 0, end |-> it.end]
      ELSE [it EXCEPT !.pos = pos1]


(***************************************************************************)
(* The single-threaded index: any sequence of Insert and Remove.           *)
(***************************************************************************)
\* Between calls a page's bytes past its size, and the key of slot 0 of an
\* internal page, are never read before they are written again: they are
\* left out of the state.
Normalize(pg) ==
  [i \in PageIds |->
     IF ~pg[i].live THEN FreePage
     ELSE IF pg[i].isLeaf THEN [pg[i] EXCEPT !.arr = SubSeq(@, 1, pg[i].size)]
     ELSE [pg[i] EXCEPT !.arr = [j \in 1..pg[i].size |->
                                   IF j = 1 THEN <<NoKey, @[j][2]>> ELSE @[j]]]]

\* The page ids a call leaves behind depend on the order in which the buffer
\* pool handed them out, and no call looks at an id other than to compare it
\* or follow it.  Between calls the live pages are renumbered in breadth-first
\* order from the root (pages not reachable from the root follow, in id
\* order), so that trees that differ only in their page ids are one state.
\* A pointer to a page that is not live becomes DanglingPageId.
DanglingPageId == INVALID_PAGE_ID - 1

RECURSIVE FlatChildren(_, _)
FlatChildren(pg, level) ==
  IF level = <<>> THEN <<>>
  ELSE (IF pg[Head(level)].isLeaf THEN <<>> ELSE ChildIds(pg[Head(level)]))
       \o FlatChildren(pg, Tail(level))

RECURSIVE BfsOrder(_, _)
BfsOrder(pg, level) ==
  IF level = <<>> THEN <<>> ELSE level \o BfsOrder(pg, FlatChildren(pg, level))

RECURSIVE SortedSeq(_)
SortedSeq(S) ==
  IF S = {} THEN <<>>
  ELSE LET m == CHOOSE x \in S : \A y \in S : x <= y IN <<m>> \o SortedSeq(S \ {m})

Canon(t) ==
  LET bfs   == IF t.root = INVALID_PAGE_ID THEN <<>> ELSE BfsOrder(t.pg, <<t.root>>)
      inBfs == {bfs[i] : i \in 1..Len(bfs)}
      rest  == SortedSeq({i \in PageIds : t.pg[i].live} \ inBfs)
      order == bfs \o rest
      new(i) == IF i = INVALID_PAGE_ID THEN INVALID_PAGE_ID
                ELSE IF \E j \in 1..Len(order) : order[j] = i
                     THEN CHOOSE j \in 1..Len(order) : order[j] = i
                     ELSE DanglingPageId
      ren(p) == [p EXCEPT !.parent = new(@), !.next = new(@), !.prev = new(@),
                          !.arr = IF p.isLeaf THEN @
                                  ELSE [j \in 1..Len(@) |-> <<@[j][1], new(@[j][2])>>]]
  IN  [pg   |-> [i \in PageIds |-> IF i <= Len(order) THEN ren(t.pg[order[i]]) ELSE FreePage],
       root |-> new(t.root)]

\* What a completed call leaves in the state.
AfterCall(t) == Canon([pg |-> Normalize(t.pg), root |-> t.root])

Tree == [pg |-> pages, root |-> root]

NoCall == [op |-> "none", key |-> 0, value |-> 0, ret |-> FALSE, returned |-> TRUE,
           present |-> FALSE]

\* The value a key is inserted with when the caller does not choose one: the
\* tests insert RID(key) under key.
RidOf(k) == k

\* NewPage does not fail: a call needs at most one new page per level and one
\* for a new root.
RoomForInsert == Cardinality(FreeIds(pages)) >= 3

TreeInit ==
  /\ pages = [i \in PageIds |-> FreePage]
  /\ root = INVALID_PAGE_ID
  /\ ref = [k \in Keys |-> 0]
  /\ last = NoCall

\* A call of Insert(k, v) on the index and on the reference map.
InsertCall(k, v) ==
  /\ RoomForInsert
  /\ LET t == AfterCall(Insert(Tree, k, v).t)
     IN  pages' = t.pg /\ root' = t.root
  /\ ref' = IF ref[k] = 0 THEN [ref EXCEPT ![k] = v] ELSE ref
  /\ UNCHANGED nonTreeVars

\* A call of Remove(k) on the index and on the reference map.
RemoveCall(k) ==
  /\ LET t == AfterCall(Remove(Tree, k))
     IN  pages' = t.pg /\ root' = t.root
  /\ ref' = [ref EXCEPT ![k] = 0]
  /\ UNCHANGED nonTreeVars

\* SpecTree: every sequence of Insert and Remove over Keys.  last records
\* which operation came last and what Insert returned; Remove returns
\* nothing, and its ret records whether it went past its IsEmpty() return.
DoInsert(k, v) ==
  /\ InsertCall(k, v)
  /\ last' = [NoCall EXCEPT !.op = "Insert", !.ret = Insert(Tree, k, v).ret]

DoRemove(k) ==
  /\ RemoveCall(k)
  /\ last' = [NoCall EXCEPT !.op = "Remove", !.ret = ~IsEmpty(root)]

TreeNext ==
  \/ \E k \in Keys : DoInsert(k, RidOf(k))
  \/ \E k \in Keys : DoRemove(k)


(***************************************************************************)
(* SpecMap: the index beside a reference map.  Every sequence of Insert,   *)
(* Remove and GetValue over MapKeys, a key being inserted with any of the  *)
(* values; last records the call, what it returned, and whether the key    *)
(* was in the reference map when it was made.  A call that does not return *)
(* ends the process.                                                       *)
(***************************************************************************)
MapKeys == 1..MapMaxKey

Values == 1..MaxValue

MapInsert(k, v) ==
  /\ last.returned
  /\ InsertCall(k, v)
  /\ last' = [op |-> "Insert", key |-> k, value |-> v, ret |-> Insert(Tree, k, v).ret,
              returned |-> TRUE, present |-> ref[k] # 0]

MapRemove(k) ==
  /\ last.returned
  /\ RemoveCall(k)
  /\ last' = [op |-> "Remove", key |-> k, value |-> 0, ret |-> ~IsEmpty(root),
              returned |-> TRUE, present |-> ref[k] # 0]

MapGetValue(k) ==
  /\ last.returned
  /\ LET g == GetValue(Tree, k)
     IN  last' = [op |-> "GetValue", key |-> k, value |-> g.value, ret |-> g.found,
                  returned |-> g.returned, present |-> ref[k] # 0]
  /\ UNCHANGED <<pages, root, ref>>
  /\ UNCHANGED nonTreeVars

MapNext ==
  \/ \E k \in MapKeys, v \in Values : MapInsert(k, v)
  \/ \E k \in MapKeys : MapRemove(k)
  \/ \E k \in MapKeys : MapGetValue(k)


(***************************************************************************)
(* C1                                                                      *)
(***************************************************************************)
\* C1: GetValue agrees with the reference map.  Insert returns true exactly
\* when the key was absent; a GetValue call returns, finds a key exactly
\* when the reference map has it, and yields the value the reference map
\* holds (so Insert on a present key has kept the value, Remove has made
\* the key absent, and no call has changed another key's result).
C1_AgreesWithMap ==
  /\ last.op = "Insert" => last.ret = ~last.present
  /\ last.op = "GetValue" =>
        /\ last.returned
        /\ last.ret = (ref[last.key] # 0)
        /\ last.ret => last.value = ref[last.key]

\* The part of C1 that holds: whenever the tree is not empty, GetValue
\* returns for every key what the reference map holds, and Insert returns
\* true exactly when the key was absent.
GetValueAgreesWhenNotEmpty ==
  /\ last.op = "Insert" => last.ret = ~last.present
  /\ ~IsEmpty(root) =>
        \A k \in Keys :
          LET g == GetValue(Tree, k)
          IN  g.returned /\ g.found = (ref[k] # 0) /\ (g.found => g.value = ref[k])

(***************************************************************************)
(* What the index stores, as the claims speak of it.                       *)
(***************************************************************************)
LivePages == {i \in PageIds : pages[i].live}

InternalPages == {i \in LivePages : ~pages[i].isLeaf}

LeafPages == {i \in LivePages : pages[i].isLeaf}

NonRootPages == {i \in LivePages : i # root}

StoredKeys == {k \in Keys : ref[k] # 0}

\* The keys in the leaves below page pid.
RECURSIVE SubtreeKeys(_, _)
SubtreeKeys(pg, pid) ==
  IF pg[pid].isLeaf THEN {pg[pid].arr[i][1] : i \in 1..pg[pid].size}
  ELSE UNION {SubtreeKeys(pg, pg[pid].arr[i][2]) : i \in 1..pg[pid].size}

\* The pages below page pid, pid included.
RECURSIVE SubtreePages(_, _)
SubtreePages(pg, pid) ==
  IF pg[pid].isLeaf THEN {pid}
  ELSE {pid} \cup UNION {SubtreePages(pg, pg[pid].arr[i][2]) : i \in 1..pg[pid].size}

RECURSIVE Depth(_, _)
Depth(pg, pid) == IF pg[pid].isLeaf THEN 1 ELSE 1 + Depth(pg, ValueAt(pg[pid], 0))

TreeDepth == IF root = INVALID_PAGE_ID THEN 0 ELSE Depth(pages, root)

\* Every child pointer leads to a live page that names the pointing page as
\* its parent, every live page is reached from the root, and the root has
\* no parent.
TreeWellFormed ==
  /\ root # INVALID_PAGE_ID => /\ root \in LivePages
                               /\ pages[root].parent = INVALID_PAGE_ID
                               /\ SubtreePages(pages, root) = LivePages
  /\ root = INVALID_PAGE_ID => LivePages = {}
  /\ \A p \in InternalPages : \A i \in 1..pages[p].size :
        /\ pages[p].arr[i][2] \in LivePages
        /\ pages[pages[p].arr[i][2]].parent = p

(***************************************************************************)
(* C7                                                                      *)
(***************************************************************************)
\* C7: IsEmpty() holds exactly when no key is stored: the root is INVALID
\* once every inserted key has been removed, and while a key is stored the
\* root is a live page from which that key is reached.
C7_EmptyIffNoKey ==
  /\ IsEmpty(root) <=> StoredKeys = {}
  /\ ~IsEmpty(root) => root \in LivePages /\ SubtreeKeys(pages, root) = StoredKeys

\* A Remove that went past its IsEmpty() return has left the tree empty.
C7_Witness == last.op = "Remove" /\ last.ret /\ IsEmpty(root)

(***************************************************************************)
(* C8                                                                      *)
(***************************************************************************)
\* C8: after every completed call every non-root node has
\* ceil(max_size/2) <= size <= max_size, and the root has size <= max_size.
C8_SizeBounds ==
  /\ \A p \in NonRootPages :
        /\ (pages[p].maxSize + 1) \div 2 <= pages[p].size
        /\ pages[p].size <= pages[p].maxSize
  /\ root # INVALID_PAGE_ID => pages[root].size <= pages[root].maxSize

\* A Remove has left a tree of three levels with a non-root internal page
\* and a leaf at their least size and a leaf at its greatest size.
C8_Witness ==
  /\ last.op = "Remove" /\ TreeDepth = 3
  /\ \E p \in InternalPages \cap NonRootPages :
        pages[p].size = (pages[p].maxSize + 1) \div 2
  /\ \E p \in LeafPages : pages[p].size = (pages[p].maxSize + 1) \div 2
  /\ \E p \in LeafPages : pages[p].size = pages[p].maxSize

(***************************************************************************)
(* C9                                                                      *)
(***************************************************************************)
ChildKeys(p, i) == SubtreeKeys(pages, ValueAt(pages[p], i))

\* C9 as stated: in every internal page the keys below child(0) are less
\* than k1, and for i >= 1 the keys below child(i) are at least k_i and
\* less than k_(i+1).
C9_SeparatorsAsStated ==
  \A p \in InternalPages :
    /\ \A k \in ChildKeys(p, 0) : k < KeyAt(pages[p], 1)
    /\ \A i \in 1..(pages[p].size - 1) : \A k \in ChildKeys(p, i) :
          /\ KeyAt(pages[p], i) <= k
          /\ i + 1 < pages[p].size => k < KeyAt(pages[p], i + 1)

\* C9, amended: in every internal page the separators ascend, and for each
\* i >= 1 the keys below child(i-1) are at most k_i and the keys below
\* child(i) are greater than k_i.
C9_Separators ==
  \A p \in InternalPages : \A i \in 1..(pages[p].size - 1) :
    /\ \A k \in ChildKeys(p, i - 1) : k <= KeyAt(pages[p], i)
    /\ \A k \in ChildKeys(p, i) : KeyAt(pages[p], i) < k
    /\ i + 1 < pages[p].size => KeyAt(pages[p], i) < KeyAt(pages[p], i + 1)

\* A Remove has left a tree of three levels in which one separator is the
\* greatest key below the child on its left and another separator is a key
\* that is no longer stored.
C9_Witness ==
  /\ last.op = "Remove" /\ last.ret /\ TreeDepth = 3
  /\ \E p \in InternalPages : \E i \in 1..(pages[p].size - 1) :
        KeyAt(pages[p], i) \in ChildKeys(p, i - 1)
  /\ \E p \in InternalPages : \E i \in 1..(pages[p].size - 1) :
        KeyAt(pages[p], i) \notin StoredKeys

(***************************************************************************)
(* C22                                                                     *)
(***************************************************************************)
\* The least member of a set of indexes, or `none` if there is none.
LeastOr(S, none) == IF S = {} THEN none ELSE CHOOSE i \in S : \A j \in S : i <= j

\* C22 as stated: Lookup(key) on an internal page returns the child of slot
\* i - 1 for the smallest i in [1..size) with key < array[i].first (i = size
\* if there is none), so that a key equal to a separator goes to child i.
C22_LookupAsStated ==
  \A p \in InternalPages : \A key \in Keys :
    InternalLookup(pages[p], key) =
      ValueAt(pages[p],
              LeastOr({i \in 1..(pages[p].size - 1) : key < KeyAt(pages[p], i)},
                      pages[p].size) - 1)

\* C22, amended: Lookup(key) on an internal page returns the child of slot
\* i - 1 for the smallest i in [1..size) with key <= array[i].first (i =
\* size if there is none), so that a key equal to the separator
\* array[i].first goes to child i - 1.
C22_Lookup ==
  \A p \in InternalPages : \A key \in Keys :
    InternalLookup(pages[p], key) =
      ValueAt(pages[p],
              LeastOr({i \in 1..(pages[p].size - 1) : key <= KeyAt(pages[p], i)},
                      pages[p].size) - 1)

\* After an Insert an internal page with more than one separator has a
\* separator that is a key stored below the child on its left, and Lookup
\* of this key gives that child.
C22_Witness ==
  /\ last.op = "Insert"
  /\ \E p \in InternalPages : \E i \in 1..(pages[p].size - 2) :
       /\ KeyAt(pages[p], i) \in ChildKeys(p, i - 1)
       /\ InternalLookup(pages[p], KeyAt(pages[p], i)) = ValueAt(pages[p], i - 1)

(***************************************************************************)
(* C23.  The page ids are renumbered between calls, so what a Remove does  *)
(* to a page is read off the tree that Remove returns, before that.        *)
(***************************************************************************)
\* The pages Remove discards on its way to tree t, the root apart.
Discarded(t) == {q \in LivePages \ {root} : ~t.pg[q].live}

\* The internal page that lists q as a child, and q's slot in it.
ParentOf(q) ==
  CHOOSE p \in InternalPages : \E i \in 0..(pages[p].size - 1) : ValueAt(pages[p], i) = q
SlotOf(q) == ValueIndex(pages[ParentOf(q)], q)

\* In tree t, after Remove(k), page s holds what it held and what q held,
\* and no internal page lists q any more.
MergedInto(t, k, q, s) ==
  /\ t.pg[s].live
  /\ (SubtreeKeys(pages, q) \cup SubtreeKeys(pages, s)) \ {k}
       \subseteq SubtreeKeys(t.pg, s)
  /\ \A p \in PageIds : (t.pg[p].live /\ ~t.pg[p].isLeaf) =>
       \A i \in 0..(t.pg[p].size - 1) : ValueAt(t.pg[p], i) # q

\* C23 as stated: the page that a Coalesce discards is the right page of
\* the pair, and its entries are in the page on its left, also when the
\* page that underflows is the leftmost child.
C23_MergesIntoLeftAsStated ==
  \A k \in Keys : \A q \in Discarded(Remove(Tree, k)) :
    /\ SlotOf(q) >= 1
    /\ MergedInto(Remove(Tree, k), k, q, ValueAt(pages[ParentOf(q)], SlotOf(q) - 1))

\* C23, amended: the page that a Coalesce discards is the page that
\* underflows, and its entries are in its sibling: the page on its left
\* if it has one, and the page on its right if it is the leftmost child.
C23_MergesIntoSibling ==
  \A k \in Keys : \A q \in Discarded(Remove(Tree, k)) :
    IF SlotOf(q) >= 1
      THEN MergedInto(Remove(Tree, k), k, q, ValueAt(pages[ParentOf(q)], SlotOf(q) - 1))
      ELSE MergedInto(Remove(Tree, k), k, q, ValueAt(pages[ParentOf(q)], 1))

\* After a Remove the tree has three levels, and the Remove of one more key
\* discards a leftmost child, merged into the page on its right, and a page
\* that has a page on its left, merged into that one.
C23_Witness ==
  /\ last.op = "Remove" /\ TreeDepth = 3
  /\ \E k \in StoredKeys : \E q, r \in Discarded(Remove(Tree, k)) :
       /\ SlotOf(q) = 0
       /\ MergedInto(Remove(Tree, k), k, q, ValueAt(pages[ParentOf(q)], 1))
       /\ SlotOf(r) >= 1
       /\ MergedInto(Remove(Tree, k), k, r, ValueAt(pages[ParentOf(r)], SlotOf(r) - 1))

(***************************************************************************)
(* C24                                                                     *)
(***************************************************************************)
\* C24: after every completed Insert or Remove the root page has no parent
\* (parent_page_id = INVALID_PAGE_ID) and every child that an internal page
\* lists is a live page whose parent_page_id is that internal page's id.
C24_ParentPointers ==
  /\ root # INVALID_PAGE_ID => pages[root].parent = INVALID_PAGE_ID
  /\ \A p \in InternalPages : \A i \in 0..(pages[p].size - 1) :
       /\ ValueAt(pages[p], i) \in LivePages
       /\ pages[ValueAt(pages[p], i)].parent = p

\* An Insert has left a tree of three levels whose root has two children:
\* the root above two internal pages, the halves of a split internal page,
\* each with the children that name it as their parent.
C24_Witness ==
  /\ last.op = "Insert" /\ last.ret
  /\ TreeDepth = 3 /\ pages[root].size = 2
  /\ \A i \in 0..1 :
       /\ ~pages[ValueAt(pages[root], i)].isLeaf
       /\ pages[ValueAt(pages[root], i)].parent = root
       /\ \A j \in 0..(pages[ValueAt(pages[root], i)].size - 1) :
            pages[ValueAt(pages[ValueAt(pages[root], i)], j)].parent =
              ValueAt(pages[root], i)

(***************************************************************************)
(* C10                                                                     *)
(***************************************************************************)
\* The keys an iterator yields, *it then ++it until isEnd(), for at most
\* fuel steps.
RECURSIVE Scan(_, _, _)
Scan(pg, it, fuel) ==
  IF isEnd(it) \/ fuel = 0 THEN <<>>
  ELSE <<Deref(pg, it)[1]>> \o Scan(pg, Advance(pg, it), fuel - 1)

ScanFromBegin == Scan(pages, Begin(Tree), MaxKey + 1)

\* C10: on a non-empty tree the iterator from Begin() yields every stored
\* key once, in ascending order.
C10_IteratorYieldsAll ==
  ~IsEmpty(root) => ScanFromBegin = SortedSeq(StoredKeys)

\* A Remove has left at least four leaves, and the iterator has crossed
\* them all.
C10_Witness ==
  /\ last.op = "Remove" /\ last.ret /\ Cardinality(LeafPages) >= 4
  /\ Len(ScanFromBegin) >= 8
  /\ \A p \in LeafPages : \E i \in 1..Len(ScanFromBegin) :
        ScanFromBegin[i] = KeyAt(pages[p], 0)

(***************************************************************************)
(* C39.  The pins of the index: b_plus_tree.cpp and index_iterator.cpp,    *)
(* called without a transaction, so that there is no page set.  The buffer *)
(* pool keeps a pin count per page: FetchPage adds one, NewPage starts a   *)
(* page at one, UnpinPage takes one away.  Each operator below follows the *)
(* routine of its name and gives the pin counts the routine leaves.  The   *)
(* page routines (MoveHalfTo, MoveAllTo, MoveFirstToEndOf,                 *)
(* MoveLastToFrontOf) unpin every page they fetch before they go on, and   *)
(* UpdateRootPageId does so with the header page, which is not a page of   *)
(* the index: they leave the pin counts of PageIds as they find them.      *)
(***************************************************************************)
PinKeys == 1..MaxPinKey

FetchPage(pins, page_id) == [pins EXCEPT ![page_id] = @ + 1]

NewPage(pins, page_id) == [pins EXCEPT ![page_id] = 1]

UnpinPage(pins, page_id) == [pins EXCEPT ![page_id] = IF @ > 0 THEN @ - 1 ELSE @]

\* The descent of FindLeafPage: the child is fetched, then the page above it
\* is unpinned.
RECURSIVE DescendPins(_, _, _, _, _)
DescendPins(pins, pg, page_id, key, leftMost) ==
  IF pg[page_id].isLeaf THEN pins
  ELSE LET child == IF leftMost THEN ValueAt(pg[page_id], 0)
                    ELSE InternalLookup(pg[page_id], key)
       IN  DescendPins(UnpinPage(FetchPage(pins, child), page_id),
                       pg, child, key, leftMost)

\* FindLeafPage of a tree that is not empty: the leaf comes back pinned.
FindLeafPagePins(pins, t, key, leftMost) ==
  DescendPins(FetchPage(pins, t.root), t.pg, t.root, key, leftMost)

GetValuePins(pins, t, key) ==
  UnpinPage(FindLeafPagePins(pins, t, key, FALSE), FindLeafPage(t, key, FALSE))

RECURSIVE InsertIntoParentPins(_, _, _, _, _)
InsertIntoParentPins(pins, t, old_node, key, new_node) ==
  LET parent_pid == t.pg[old_node].parent
  IN  IF parent_pid = INVALID_PAGE_ID
      THEN LET pid == NewPageId(t.pg)
           IN  UnpinPage(NewPage(pins, pid), pid)
      ELSE LET pins1 == FetchPage(pins, parent_pid)
               pg1   == [t.pg EXCEPT ![parent_pid] =
                           InsertNodeAfter(@, old_node, key, new_node)]
           IN  IF pg1[parent_pid].size > pg1[parent_pid].maxSize
               THEN LET sp    == Split(pg1, parent_pid)
                        pins2 == InsertIntoParentPins(
                                   NewPage(pins1, sp.new),
                                   [pg |-> sp.pg, root |-> t.root],
                                   parent_pid, KeyAt(sp.pg[sp.new], 0), sp.new)
                    IN  UnpinPage(UnpinPage(pins2, sp.new), parent_pid)
               ELSE UnpinPage(pins1, parent_pid)

InsertIntoLeafPins(pins, t, key, value) ==
  LET leaf  == FindLeafPage(t, key, FALSE)
      pins1 == FindLeafPagePins(pins, t, key, FALSE)
      pg1   == [t.pg EXCEPT ![leaf] = LeafInsert(@, key, value)]
  IN  IF pg1[leaf].size > pg1[leaf].maxSize
      THEN LET sp    == Split(pg1, leaf)
               pins2 == InsertIntoParentPins(
                          NewPage(pins1, sp.new),
                          [pg |-> sp.pg, root |-> t.root], leaf,
                          LeafSeparator(sp.pg[leaf], sp.pg[sp.new]), sp.new)
           IN  UnpinPage(UnpinPage(pins2, sp.new), leaf)
      ELSE UnpinPage(pins1, leaf)

StartNewTreePins(pins, t, key, value) ==
  LET page_id == NewPageId(t.pg)
      t1      == [pg   |-> [t.pg EXCEPT ![page_id] = LeafInit(INVALID_PAGE_ID)],
                  root |-> page_id]
  IN  InsertIntoLeafPins(UnpinPage(NewPage(pins, page_id), page_id), t1, key, value)

InsertPins(pins, t, key, value) ==
  IF IsEmpty(t.root) THEN StartNewTreePins(pins, t, key, value)
  ELSE InsertIntoLeafPins(pins, t, key, value)

AdjustRootPins(pins, t, old_root_node) ==
  LET node == t.pg[old_root_node]
  IN  IF ~node.isLeaf /\ node.size = 1
      THEN UnpinPage(FetchPage(pins, ValueAt(node, 0)), ValueAt(node, 0))
      ELSE pins

RECURSIVE CoalesceOrRedistributePins(_, _, _)
CoalesceOrRedistributePins(pins, t, node) ==
  LET pg        == t.pg
      parent_id == pg[node].parent
  IN  IF pg[node].size >= GetMinSize(pg[node]) THEN pins
      ELSE IF parent_id = INVALID_PAGE_ID THEN AdjustRootPins(pins, t, node)
      ELSE
        LET parent    == pg[parent_id]
            idx       == ValueIndex(parent, node)
            hasLeft   == idx >= 1
            left_sib  == IF hasLeft THEN ValueAt(parent, idx - 1) ELSE INVALID_PAGE_ID
            hasRight  == idx + 1 < parent.size
            right_sib == IF hasRight THEN ValueAt(parent, idx + 1) ELSE INVALID_PAGE_ID
            pins1     == FetchPage(pins, parent_id)
            pins2     == IF hasLeft THEN FetchPage(pins1, left_sib) ELSE pins1
            pins3     == IF hasRight THEN FetchPage(pins2, right_sib) ELSE pins2
        IN  IF hasLeft /\ pg[left_sib].size > GetMinSize(pg[left_sib])
            THEN UnpinPage(UnpinPage(pins2, left_sib), parent_id)
            ELSE IF hasRight /\ pg[right_sib].size > GetMinSize(pg[right_sib])
            THEN UnpinPage(IF hasLeft
                           THEN UnpinPage(UnpinPage(pins3, right_sib), left_sib)
                           ELSE UnpinPage(pins3, right_sib),
                           parent_id)
            ELSE
              LET pg1   == IF hasLeft
                           THEN Coalesce(pg, left_sib, node, parent_id, 0)
                           ELSE Coalesce(pg, right_sib, node, parent_id, 1)
                  \* Coalesce unpins the neighbour it was given
                  pins4 == IF hasLeft
                           THEN IF hasRight
                                THEN UnpinPage(UnpinPage(pins3, left_sib), right_sib)
                                ELSE UnpinPage(pins3, left_sib)
                           ELSE UnpinPage(pins3, right_sib)
              IN  UnpinPage(CoalesceOrRedistributePins(
                              pins4, [pg |-> pg1, root |-> t.root], parent_id),
                            parent_id)

RemovePins(pins, t, key) ==
  IF IsEmpty(t.root) THEN pins
  ELSE LET leaf  == FindLeafPage(t, key, FALSE)
           pins1 == FindLeafPagePins(pins, t, key, FALSE)
           pg1   == [t.pg EXCEPT ![leaf] = LeafRemoveAndDeleteRecord(@, key)]
           t1    == [pg |-> pg1, root |-> t.root]
       IN  IF pg1[leaf].size < GetMinSize(pg1[leaf])
           THEN UnpinPage(CoalesceOrRedistributePins(pins1, t1, leaf), leaf)
           ELSE UnpinPage(pins1, leaf)

\* BPlusTree::Begin(): the leaf FindLeafPage returns stays pinned, and the
\* constructor of the iterator fetches it again.
BeginPins(pins, t) ==
  FetchPage(FindLeafPagePins(pins, t, NoKey, TRUE), FindLeafPage(t, NoKey, TRUE))

\* BPlusTree::Begin(key): the leaf is unpinned before the constructor of the
\* iterator fetches it.
BeginKeyPins(pins, t, key) ==
  LET leaf == FindLeafPage(t, key, FALSE)
  IN  FetchPage(UnpinPage(FindLeafPagePins(pins, t, key, FALSE), leaf), leaf)

BeginKey(t, key) ==
  LET leaf == FindLeafPage(t, key, FALSE)
  IN  IndexIterator(t.pg, leaf, LeafKeyIndex(t.pg[leaf], key))

\* operator++: the leaf is changed for the next one when there is one.
AdvancePins(pins, pg, it) ==
  IF it.pos + 1 >= pg[it.leaf_page].size /\ pg[it.leaf_page].next # INVALID_PAGE_ID
  THEN FetchPage(UnpinPage(pins, it.leaf_page), pg[it.leaf_page].next)
  ELSE pins

(***************************************************************************)
(* SpecPin: one caller of the index, who inserts, removes and looks up     *)
(* keys of PinKeys, and at times holds an iterator, which is advanced      *)
(* and destroyed before the next call of the index.  Page ids are kept as *)
(* the buffer pool hands them out, since the pin counts go by page id.     *)
(***************************************************************************)
NoPins == [i \in PageIds |-> 0]

NoIterator == [open |-> FALSE, leaf_page |-> INVALID_PAGE_ID, pos |-> 0, end |-> FALSE]

Opened(it) == [open |-> TRUE, leaf_page |-> it.leaf_page, pos |-> it.pos, end |-> it.end]

PinInit ==
  /\ pin_count = NoPins
  /\ iterator = NoIterator
  /\ pinLast = [op |-> "none", before |-> NoPins, over |-> TRUE]

PinCall(op) == [op |-> op, before |-> pin_count, over |-> TRUE]

PinInsert(k) ==
  /\ ~iterator.open
  /\ RoomForInsert
  /\ LET r == Insert(Tree, k, RidOf(k))
     IN  /\ pages' = Normalize(r.t.pg)
         /\ root' = r.t.root
         /\ last' = [NoCall EXCEPT !.op = "Insert", !.ret = r.ret]
  /\ ref' = IF ref[k] = 0 THEN [ref EXCEPT ![k] = RidOf(k)] ELSE ref
  /\ pin_count' = InsertPins(pin_count, Tree, k, RidOf(k))
  /\ pinLast' = PinCall("Insert")
  /\ UNCHANGED <<iterator, nonPinVars>>

\* DeletePage is for pages that nobody pins: a Remove that gives back a page
\* somebody pins fails its assert and does not return.
PinRemove(k) ==
  /\ ~iterator.open
  /\ LET t == Remove(Tree, k)
     IN  /\ \A p \in PageIds : pages[p].live /\ ~t.pg[p].live => pin_count[p] = 0
         /\ pages' = Normalize(t.pg)
         /\ root' = t.root
  /\ last' = [NoCall EXCEPT !.op = "Remove", !.ret = ~IsEmpty(root)]
  /\ ref' = [ref EXCEPT ![k] = 0]
  /\ pin_count' = RemovePins(pin_count, Tree, k)
  /\ pinLast' = PinCall("Remove")
  /\ UNCHANGED <<iterator, nonPinVars>>

\* GetValue, Begin() and Begin(key) of an empty tree do not return.
PinGetValue(k) ==
  /\ ~iterator.open
  /\ ~IsEmpty(root)
  /\ pin_count' = GetValuePins(pin_count, Tree, k)
  /\ pinLast' = PinCall("GetValue")
  /\ last' = [NoCall EXCEPT !.op = "GetValue", !.ret = GetValue(Tree, k).found]
  /\ UNCHANGED <<pages, root, ref, iterator, nonPinVars>>

\* Pin counts stay below MaxPin.
PinRoom == \A p \in PageIds : pin_count[p] < MaxPin

PinBegin ==
  /\ ~iterator.open
  /\ ~IsEmpty(root)
  /\ PinRoom
  /\ iterator' = Opened(Begin(Tree))
  /\ pin_count' = BeginPins(pin_count, Tree)
  /\ pinLast' = [op |-> "Begin", before |-> pin_count, over |-> FALSE]
  /\ UNCHANGED <<treeVars, nonPinVars>>

PinBeginKey(k) ==
  /\ ~iterator.open
  /\ ~IsEmpty(root)
  /\ PinRoom
  /\ iterator' = Opened(BeginKey(Tree, k))
  /\ pin_count' = BeginKeyPins(pin_count, Tree, k)
  /\ pinLast' = [op |-> "BeginKey", before |-> pin_count, over |-> FALSE]
  /\ UNCHANGED <<treeVars, nonPinVars>>

\* operator++ of the iterator the caller holds.  end_ is set by the
\* constructor, so that the read of it in operator++ is of a value.
PinAdvance ==
  /\ iterator.open
  /\ ~iterator.end
  /\ iterator' = Opened(Advance(pages, iterator))
  /\ pin_count' = AdvancePins(pin_count, pages, iterator)
  /\ UNCHANGED <<pinLast, treeVars, nonPinVars>>

\* ~IndexIterator
PinDestroy ==
  /\ iterator.open
  /\ iterator' = NoIterator
  /\ pin_count' = UnpinPage(pin_count, iterator.leaf_page)
  /\ pinLast' = [pinLast EXCEPT !.over = TRUE]
  /\ UNCHANGED <<treeVars, nonPinVars>>

PinNext ==
  \/ \E k \in PinKeys : PinInsert(k)
  \/ \E k \in PinKeys : PinRemove(k)
  \/ \E k \in PinKeys : PinGetValue(k)
  \/ PinBegin
  \/ \E k \in PinKeys : PinBeginKey(k)
  \/ PinAdvance
  \/ PinDestroy

\* C39: when GetValue, Insert or Remove has returned, and when an iterator
\* obtained from Begin() or Begin(key) has been advanced and destroyed, every
\* page's pin count is what it was before the call.  (The calls are made
\* without a transaction: there is no page set and no deleted-page set.)
C39_PinNeutral == pinLast.over => pin_count = pinLast.before

(***************************************************************************)
(* lock_manager.cpp, lock_manager.h.                                       *)
(* A WaitList is [present, state, granted, lst]; present is false for a    *)
(* rid that map_ does not hold.  A WaitItem is [tid, state, promise], the  *)
(* promise being the number of the std::promise it carries.  Each          *)
(* transaction runs in one thread.  What a routine does while it holds     *)
(* latch_ is one step; a wait on a promise ends in a step of its own.      *)
(***************************************************************************)
Txns == 1..MaxTxn

Rids == 1..MaxRid

NoWaitList == [present |-> FALSE, state |-> "SHARED", granted |-> {}, lst |-> <<>>]

\* WaitList(tid, state)
WaitList(tid, state) ==
  [present |-> TRUE, state |-> state, granted |-> {tid}, lst |-> <<>>]

WaitItem(tid, state, promise) == [tid |-> tid, state |-> state, promise |-> promise]

Idle == [at |-> "idle", op |-> "none", rid |-> 0, promise |-> 0, state |-> "SHARED"]

NoLockCall == [txn |-> 0, op |-> "none", ret |-> FALSE]

LockInit ==
  /\ lockTable = [r \in Rids |-> NoWaitList]
  /\ latchOwner = 0
  /\ strict2PL \in BOOLEAN
  /\ txnState = [t \in Txns |-> "GROWING"]
  /\ sharedLockSet = [t \in Txns |-> {}]
  /\ exclusiveLockSet = [t \in Txns |-> {}]
  /\ lockPc = [t \in Txns |-> Idle]
  /\ promises = [made |-> 0, set |-> {}]
  /\ lockLast = NoLockCall

\* std::unique_lock<std::mutex> lock(latch_) is entered.
LatchFree == latchOwner = 0

\* The routine returns ret to the thread of t.
Returns(t, op, ret) ==
  /\ lockLast' = [txn |-> t, op |-> op, ret |-> ret]
  /\ lockPc' = [lockPc EXCEPT ![t] = Idle]

\* A variant of the test that returns false and leaves the state SHRINKING.
ShrinkingStays(t, op) ==
  /\ txnState[t] = "SHRINKING"
  /\ Returns(t, op, FALSE)
  /\ UNCHANGED <<lockTable, latchOwner, strict2PL, txnState, sharedLockSet,
                 exclusiveLockSet, promises>>

\* The test every lock routine starts with, before it takes latch_.
ShrinkingAborts(t, op) ==
  /\ txnState[t] = "SHRINKING"
  /\ txnState' = [txnState EXCEPT ![t] = "ABORTED"]
  /\ Returns(t, op, FALSE)
  /\ UNCHANGED <<lockTable, latchOwner, strict2PL, sharedLockSet, exclusiveLockSet,
                 promises>>

\* lst_.emplace_back(tid, state); the routine lets go of latch_ and waits
\* on the item's promise.
Enqueue(t, rid, state, op) ==
  /\ promises.made < MaxPromise
  /\ lockTable' = [lockTable EXCEPT ![rid].lst =
                     Append(@, WaitItem(t, state, promises.made + 1))]
  /\ promises' = [promises EXCEPT !.made = @ + 1]
  /\ lockPc' = [lockPc EXCEPT ![t] = [at |-> "wait", op |-> op, rid |-> rid,
                                      promise |-> promises.made + 1, state |-> state]]
  /\ UNCHANGED <<latchOwner, strict2PL, txnState, sharedLockSet, exclusiveLockSet,
                 lockLast>>

\* A variant of LockShared's test under which a shared request never waits.
SharedNeverWaits(ptr) == FALSE

\* Whether LockShared finds the lock held in a way that makes it wait.
SharedMustWait(ptr) == ptr.state = "EXCLUSIVE"

LockShared(t, rid) ==
  /\ lockPc[t].at = "idle"
  /\ \/ ShrinkingAborts(t, "LockShared")
     \/ /\ txnState[t] # "SHRINKING"
        /\ LatchFree
        /\ IF ~lockTable[rid].present
           THEN /\ lockTable' = [lockTable EXCEPT ![rid] = WaitList(t, "SHARED")]
                /\ sharedLockSet' = [sharedLockSet EXCEPT ![t] = @ \cup {rid}]
                /\ Returns(t, "LockShared", TRUE)
                /\ UNCHANGED <<latchOwner, strict2PL, txnState, exclusiveLockSet, promises>>
           ELSE IF SharedMustWait(lockTable[rid])
           THEN Enqueue(t, rid, "SHARED", "LockShared")
           ELSE /\ lockTable' = [lockTable EXCEPT ![rid].granted = @ \cup {t}]
                /\ sharedLockSet' = [sharedLockSet EXCEPT ![t] = @ \cup {rid}]
                /\ Returns(t, "LockShared", TRUE)
                /\ UNCHANGED <<latchOwner, strict2PL, txnState, exclusiveLockSet, promises>>
  /\ UNCHANGED nonLockVars

LockExclusive(t, rid) ==
  /\ lockPc[t].at = "idle"
  /\ \/ ShrinkingAborts(t, "LockExclusive")
     \/ /\ txnState[t] # "SHRINKING"
        /\ LatchFree
        /\ IF ~lockTable[rid].present
           THEN /\ lockTable' = [lockTable EXCEPT ![rid] = WaitList(t, "EXCLUSIVE")]
                /\ exclusiveLockSet' = [exclusiveLockSet EXCEPT ![t] = @ \cup {rid}]
                /\ Returns(t, "LockExclusive", TRUE)
                /\ UNCHANGED <<latchOwner, strict2PL, txnState, sharedLockSet, promises>>
           ELSE Enqueue(t, rid, "EXCLUSIVE", "LockExclusive")
  /\ UNCHANGED nonLockVars

\* promise->get_future().wait_for(WAIT_TIMEOUT) returns ready: the promise
\* has been set.
WaitGranted(t) ==
  /\ lockPc[t].at = "wait"
  /\ lockPc[t].promise \in promises.set
  /\ IF lockPc[t].state = "SHARED"
     THEN /\ sharedLockSet' = [sharedLockSet EXCEPT ![t] = @ \cup {lockPc[t].rid}]
          /\ UNCHANGED exclusiveLockSet
     ELSE /\ exclusiveLockSet' = [exclusiveLockSet EXCEPT ![t] = @ \cup {lockPc[t].rid}]
          /\ UNCHANGED sharedLockSet
  /\ Returns(t, lockPc[t].op, TRUE)
  /\ UNCHANGED <<lockTable, latchOwner, strict2PL, txnState, promises>>
  /\ UNCHANGED nonLockVars

\* A variant of the timeout that returns true to the caller.
TimeoutReturnsTrue(t) ==
  /\ lockPc[t].at = "wait"
  /\ lockPc[t].promise \notin promises.set
  /\ txnState' = [txnState EXCEPT ![t] = "ABORTED"]
  /\ Returns(t, lockPc[t].op, TRUE)
  /\ UNCHANGED <<lockTable, latchOwner, strict2PL, sharedLockSet, exclusiveLockSet,
                 promises>>
  /\ UNCHANGED nonLockVars

\* wait_for returns std::future_status::timeout: the promise has not been
\* set within WAIT_TIMEOUT.  The WaitItem stays in lst_.
WaitTimeout(t) ==
  /\ lockPc[t].at = "wait"
  /\ lockPc[t].promise \notin promises.set
  /\ txnState' = [txnState EXCEPT ![t] = "ABORTED"]
  /\ Returns(t, lockPc[t].op, FALSE)
  /\ UNCHANGED <<lockTable, latchOwner, strict2PL, sharedLockSet, exclusiveLockSet,
                 promises>>
  /\ UNCHANGED nonLockVars

\* LockUpgrade.  Having given up the shared lock it calls LockExclusive
\* while it holds latch_, and LockExclusive locks latch_, a std::mutex the
\* thread already owns: the thread never gets it (or the process ends
\* there), and latch_ is never released.
LockUpgrade(t, rid) ==
  /\ lockPc[t].at = "idle"
  /\ \/ ShrinkingAborts(t, "LockUpgrade")
     \/ /\ txnState[t] # "SHRINKING"
        /\ LatchFree
        /\ IF \/ ~lockTable[rid].present
              \/ t \notin lockTable[rid].granted
              \/ lockTable[rid].state # "SHARED"
           THEN /\ Returns(t, "LockUpgrade", FALSE)
                /\ UNCHANGED <<lockTable, latchOwner, strict2PL, txnState, sharedLockSet,
                               exclusiveLockSet, promises>>
           ELSE /\ lockTable' = [lockTable EXCEPT ![rid].granted = @ \ {t}]
                /\ sharedLockSet' = [sharedLockSet EXCEPT ![t] = @ \ {rid}]
                /\ latchOwner' = t
                /\ lockPc' = [lockPc EXCEPT ![t] = [at |-> "relock",
                                                    op |-> "LockUpgrade", rid |-> rid,
                                                    promise |-> 0,
                                                    state |-> "EXCLUSIVE"]]
                /\ UNCHANGED <<strict2PL, txnState, exclusiveLockSet, promises,
                               lockLast>>
  /\ UNCHANGED nonLockVars

\* A variant of AfterRelease that grants to the head of the queue and
\* leaves it queued.
AfterReleaseKeepsHead(ptr) ==
  IF ptr.granted # {} THEN ptr
  ELSE IF ptr.lst = <<>> THEN NoWaitList
  ELSE [ptr EXCEPT !.granted = {Head(ptr.lst).tid},
                   !.state = Head(ptr.lst).state]

\* What Unlock leaves of a WaitList once txn is out of granted_.
AfterRelease(ptr) ==
  IF ptr.granted # {} THEN ptr
  ELSE IF ptr.lst = <<>> THEN NoWaitList
  ELSE [ptr EXCEPT !.granted = {Head(ptr.lst).tid},
                   !.state = Head(ptr.lst).state,
                   !.lst = Tail(ptr.lst)]

\* The promises Unlock sets.
Signalled(ptr) ==
  IF ptr.granted = {} /\ ptr.lst # <<>> THEN {Head(ptr.lst).promise} ELSE {}

\* A variant of Unlock's test under which strict 2PL refuses nothing.
StrictNeverRefuses(t) == FALSE

\* Unlock's test under strict 2PL: the transaction has not ended.
StrictRefuses(t) ==
  strict2PL /\ txnState[t] \notin {"COMMITTED", "ABORTED"}

\* Unlock, called for a rid of one of the transaction's lock sets.
Unlock(t, rid) ==
  /\ lockPc[t].at = "idle"
  /\ rid \in sharedLockSet[t] \cup exclusiveLockSet[t]
  /\ IF StrictRefuses(t)
     THEN /\ txnState' = [txnState EXCEPT ![t] = "ABORTED"]
          /\ Returns(t, "Unlock", FALSE)
          /\ UNCHANGED <<lockTable, latchOwner, strict2PL, sharedLockSet,
                         exclusiveLockSet, promises>>
     ELSE /\ LatchFree
          /\ lockTable[rid].present
          /\ t \in lockTable[rid].granted
          /\ LET ptr == [lockTable[rid] EXCEPT !.granted = @ \ {t}]
             IN  /\ lockTable' = [lockTable EXCEPT ![rid] = AfterRelease(ptr)]
                 /\ promises' = [promises EXCEPT !.set = @ \cup Signalled(ptr)]
          /\ IF lockTable[rid].state = "EXCLUSIVE"
             THEN /\ exclusiveLockSet' = [exclusiveLockSet EXCEPT ![t] = @ \ {rid}]
                  /\ UNCHANGED sharedLockSet
             ELSE /\ sharedLockSet' = [sharedLockSet EXCEPT ![t] = @ \ {rid}]
                  /\ UNCHANGED exclusiveLockSet
          /\ txnState' = IF ~strict2PL /\ txnState[t] = "GROWING"
                         THEN [txnState EXCEPT ![t] = "SHRINKING"]
                         ELSE txnState
          /\ Returns(t, "Unlock", TRUE)
          /\ UNCHANGED <<latchOwner, strict2PL>>
  /\ UNCHANGED nonLockVars

\* The transaction manager ends a transaction: Commit sets COMMITTED, Abort
\* sets ABORTED; the Unlock calls for its lock sets follow.
TxnEnd(t, state) ==
  /\ lockPc[t].at = "idle"
  /\ txnState[t] \in {"GROWING", "SHRINKING"}
  /\ txnState' = [txnState EXCEPT ![t] = state]
  /\ UNCHANGED <<lockTable, latchOwner, strict2PL, sharedLockSet, exclusiveLockSet,
                 lockPc, promises, lockLast>>
  /\ UNCHANGED nonLockVars

LockNext ==
  \/ \E t \in Txns, rid \in Rids : LockShared(t, rid)
  \/ \E t \in Txns, rid \in Rids : LockExclusive(t, rid)
  \/ \E t \in Txns, rid \in Rids : LockUpgrade(t, rid)
  \/ \E t \in Txns, rid \in Rids : Unlock(t, rid)
  \/ \E t \in Txns : WaitGranted(t)
  \/ \E t \in Txns : WaitTimeout(t)
  \/ \E t \in Txns : TxnEnd(t, "COMMITTED")
  \/ \E t \in Txns : TxnEnd(t, "ABORTED")

(***************************************************************************)
(* C2                                                                      *)
(***************************************************************************)
ExclusiveHolders(rid) == {t \in Txns : rid \in exclusiveLockSet[t]}

SharedHolders(rid) == {t \in Txns : rid \in sharedLockSet[t]}

\* C2: for every rid, the lock table grants it in EXCLUSIVE mode to exactly
\* one transaction or in SHARED mode to any number, and the transactions'
\* lock sets say the same: at most one holds it exclusively, and then none
\* holds it shared; every holder by its lock set is in the granted set, in
\* the mode of the table.
C2_GrantedSets ==
  \A rid \in Rids :
    /\ lockTable[rid].present /\ lockTable[rid].state = "EXCLUSIVE"
          => Cardinality(lockTable[rid].granted) = 1
    /\ Cardinality(ExclusiveHolders(rid)) <= 1
    /\ ExclusiveHolders(rid) # {} => SharedHolders(rid) = {}
    /\ ExclusiveHolders(rid) # {} =>
          /\ lockTable[rid].present /\ lockTable[rid].state = "EXCLUSIVE"
          /\ ExclusiveHolders(rid) = lockTable[rid].granted
    /\ SharedHolders(rid) # {} =>
          /\ lockTable[rid].present /\ lockTable[rid].state = "SHARED"
          /\ SharedHolders(rid) \subseteq lockTable[rid].granted

\* A rid has been granted exclusively by an Unlock to a waiter, which has
\* returned true, while a request that timed out is still in its queue.
C2_Witness ==
  \E rid \in Rids : \E t \in ExclusiveHolders(rid) :
    /\ lockLast = [txn |-> t, op |-> "LockExclusive", ret |-> TRUE]
    /\ promises.set # {}
    /\ \E i \in 1..Len(lockTable[rid].lst) :
          /\ txnState[lockTable[rid].lst[i].tid] = "ABORTED"
          /\ lockPc[lockTable[rid].lst[i].tid].at = "idle"

(***************************************************************************)
(* C11                                                                     *)
(***************************************************************************)
LockOps == {"LockShared", "LockExclusive", "LockUpgrade"}

\* A lock routine returns to t in this step.
LockReturnsTo(t) ==
  /\ lockLast'.txn = t
  /\ lockLast'.op \in LockOps
  /\ lockLast' # lockLast

\* C11: a SHRINKING transaction acquires nothing: no step adds a rid to its
\* lock sets or the transaction to a granted set or a wait queue, and a lock
\* routine it calls returns false at once with the transaction ABORTED and
\* the lock table and the lock sets as they were.
C11_ShrinkingAcquiresNothing ==
  [][\A t \in Txns :
       txnState[t] = "SHRINKING" =>
         /\ sharedLockSet'[t] \subseteq sharedLockSet[t]
         /\ exclusiveLockSet'[t] \subseteq exclusiveLockSet[t]
         /\ \A rid \in Rids :
              /\ t \in lockTable'[rid].granted => t \in lockTable[rid].granted
              /\ Len(lockTable'[rid].lst) <= Len(lockTable[rid].lst)
                   \/ lockTable'[rid].lst[Len(lockTable'[rid].lst)].tid # t
         /\ lockPc'[t].at = "idle"
         /\ LockReturnsTo(t) =>
              /\ ~lockLast'.ret
              /\ txnState'[t] = "ABORTED"
              /\ lockTable' = lockTable
              /\ sharedLockSet' = sharedLockSet
              /\ exclusiveLockSet' = exclusiveLockSet
              /\ promises' = promises
    ]_vars

\* Under non-strict 2PL a transaction has unlocked and then called
\* LockExclusive on a rid another transaction holds: it is ABORTED, the call
\* has returned false, and nothing was ever put on a wait queue.
C11_Witness ==
  /\ ~strict2PL
  /\ \E t \in Txns :
       /\ lockLast = [txn |-> t, op |-> "LockExclusive", ret |-> FALSE]
       /\ txnState[t] = "ABORTED"
       /\ \E rid \in Rids :
            /\ lockTable[rid].present
            /\ lockTable[rid].granted # {}
            /\ t \notin lockTable[rid].granted
            /\ lockTable[rid].lst = <<>>
  /\ promises.made = 0

(***************************************************************************)
(* C12                                                                     *)
(***************************************************************************)
\* Unlock returns to t in this step.
UnlockReturnsTo(t) ==
  /\ lockLast'.txn = t
  /\ lockLast'.op = "Unlock"
  /\ lockLast' # lockLast

\* C12: under strict 2PL an Unlock by a transaction that is neither
\* COMMITTED nor ABORTED returns false with the transaction ABORTED, and
\* the lock table, the lock sets and the promises are as they were.
C12_StrictUnlockRefused ==
  [][\A t \in Txns :
       (strict2PL /\ txnState[t] \notin {"COMMITTED", "ABORTED"}
          /\ UnlockReturnsTo(t)) =>
         /\ ~lockLast'.ret
         /\ txnState'[t] = "ABORTED"
         /\ lockTable' = lockTable
         /\ sharedLockSet' = sharedLockSet
         /\ exclusiveLockSet' = exclusiveLockSet
         /\ promises' = promises
    ]_vars

\* Under strict 2PL a transaction that holds a rid another transaction
\* waits for has called Unlock before its end: it is ABORTED, it still
\* holds the rid, and the waiter still waits.
C12_Witness ==
  /\ strict2PL
  /\ \E t \in Txns, rid \in Rids :
       /\ lockLast = [txn |-> t, op |-> "Unlock", ret |-> FALSE]
       /\ txnState[t] = "ABORTED"
       /\ rid \in sharedLockSet[t] \cup exclusiveLockSet[t]
       /\ t \in lockTable[rid].granted
       /\ \E i \in 1..Len(lockTable[rid].lst) :
            LET w == lockTable[rid].lst[i]
            IN  /\ lockPc[w.tid].at = "wait"
                /\ lockPc[w.tid].promise = w.promise
                /\ w.promise \notin promises.set

(***************************************************************************)
(* C13                                                                     *)
(***************************************************************************)
\* C13: wait-die.  A step that puts a transaction on a rid's wait queue
\* finds a holder of the rid that is not older than the transaction (its
\* txn-id is not smaller): a requester younger than every holder does not
\* wait.
C13_WaitDie ==
  [][\A t \in Txns :
       (lockPc[t].at = "idle" /\ lockPc'[t].at = "wait") =>
         \E h \in lockTable[lockPc'[t].rid].granted : h >= t
    ]_vars

(***************************************************************************)
(* C14                                                                     *)
(***************************************************************************)
\* After the step, rid is granted to t in the mode routine op asks for, by
\* the lock table and by t's lock sets.
GrantedAfter(t, rid, op) ==
  /\ lockTable'[rid].present
  /\ t \in lockTable'[rid].granted
  /\ IF op = "LockShared"
     THEN /\ lockTable'[rid].state = "SHARED"
          /\ rid \in sharedLockSet'[t]
     ELSE /\ lockTable'[rid].state = "EXCLUSIVE"
          /\ lockTable'[rid].granted = {t}
          /\ rid \in exclusiveLockSet'[t]

BlockedForEver(t) == lockPc[t].at = "relock" /\ latchOwner = t

\* C15: every call to LockShared, LockExclusive, LockUpgrade and Unlock
\* returns: no call comes to a point from which it cannot return, and
\* LockUpgrade in particular does not lock latch_ while it holds it.
C15_EveryCallReturns == \A t \in Txns : ~BlockedForEver(t)

(***************************************************************************)
(* C29, C30                                                                *)
(***************************************************************************)
\* The step is LockShared(t, rid) granting at once on an entry map_ holds.
GrantsSharedAtOnce(t, rid) ==
  /\ lockPc[t].at = "idle"
  /\ lockTable[rid].present
  /\ rid \notin sharedLockSet[t]
  /\ rid \in sharedLockSet'[t]

\* A transaction is waiting on its promise for rid in EXCLUSIVE mode.
ExclusiveWaiting(rid) ==
  \E u \in Txns :
    /\ lockPc[u].at = "wait"
    /\ lockPc[u].rid = rid
    /\ lockPc[u].state = "EXCLUSIVE"
    /\ lockPc[u].promise \notin promises.set

\* C29: LockShared on a rid whose entry is in SHARED mode is granted at
\* once only if no EXCLUSIVE request is waiting in the rid's queue: a
\* shared request that comes after a queued exclusive waiter does not
\* overtake it.
C29_NoOvertaking ==
  [][\A t \in Txns, rid \in Rids :
       GrantsSharedAtOnce(t, rid) => ~ExclusiveWaiting(rid)]_vars

\* The step is Unlock(t, rid) past its tests.
Unlocks(t, rid) ==
  /\ lockPc[t].at = "idle"
  /\ lockPc'[t].at = "idle"
  /\ rid \in sharedLockSet[t] \cup exclusiveLockSet[t]
  /\ rid \notin sharedLockSet'[t] \cup exclusiveLockSet'[t]

\* C30: an Unlock that empties granted_ pops exactly the head of a
\* non-empty queue, grants to it, takes its mode for the entry and sets
\* its promise and no other; with an empty queue it erases the rid's
\* entry; and an Unlock that leaves other holders changes neither the
\* queue nor the mode.
C30_UnlockGrantsHead ==
  [][\A t \in Txns, rid \in Rids :
       Unlocks(t, rid) =>
         LET ptr  == lockTable[rid]
             rest == ptr.granted \ {t}
         IN  /\ rest # {} =>
                  /\ lockTable'[rid] = [ptr EXCEPT !.granted = rest]
                  /\ promises'.set = promises.set
             /\ (rest = {} /\ ptr.lst # <<>>) =>
                  /\ lockTable'[rid].present
                  /\ lockTable'[rid].granted = {Head(ptr.lst).tid}
                  /\ lockTable'[rid].state = Head(ptr.lst).state
                  /\ lockTable'[rid].lst = Tail(ptr.lst)
                  /\ promises'.set = promises.set \cup {Head(ptr.lst).promise}
             /\ (rest = {} /\ ptr.lst = <<>>) =>
                  /\ ~lockTable'[rid].present
                  /\ promises'.set = promises.set]_vars

\* An Unlock has just handed the lock to the first of two waiters: the
\* first is granted and its promise is set, the second is still queued
\* with its promise not set.
C30_Witness ==
  /\ lockLast = [txn |-> lockLast.txn, op |-> "Unlock", ret |-> TRUE]
  /\ \E rid \in Rids, u \in Txns :
       /\ lockTable[rid].present
       /\ lockTable[rid].granted = {u}
       /\ u # lockLast.txn
       /\ lockPc[u].at = "wait"
       /\ lockPc[u].rid = rid
       /\ lockPc[u].promise \in promises.set
       /\ lockTable[rid].state = lockPc[u].state
       /\ Len(lockTable[rid].lst) = 1
       /\ lockTable[rid].lst[1].promise \notin promises.set

(***************************************************************************)
(* C31, C40                                                                *)
(***************************************************************************)
\* The step is a call of LockShared or LockExclusive by t, which has ended
\* (ABORTED or COMMITTED): the call returns or goes to wait on a promise.
EndedCalls(t) ==
  /\ txnState[t] \in {"ABORTED", "COMMITTED"}
  /\ lockPc[t].at = "idle"
  /\ \/ lockPc'[t].at = "wait"
     \/ LockReturnsTo(t) /\ lockLast'.op \in {"LockShared", "LockExclusive"}

\* C31: LockShared and LockExclusive called by a transaction that is
\* ABORTED or COMMITTED return false and grant nothing: the call does not
\* wait, and the lock table, the lock sets and the promises are as they
\* were.
C31_EndedGetsNothing ==
  [][\A t \in Txns :
       EndedCalls(t) =>
         /\ lockPc'[t].at = "idle"
         /\ ~lockLast'.ret
         /\ lockTable' = lockTable
         /\ sharedLockSet' = sharedLockSet
         /\ exclusiveLockSet' = exclusiveLockSet
         /\ promises' = promises
    ]_vars

\* t has an item in the wait queue of rid.
Queued(t, rid) ==
  \E i \in 1..Len(lockTable[rid].lst) : lockTable[rid].lst[i].tid = t

\* t is in wait_for on the promise of its request for rid.
WaitsFor(t, rid) == lockPc[t].at = "wait" /\ lockPc[t].rid = rid

\* C40: a request that has timed out is no longer in the rid's queue, so
\* whoever is queued is waiting on its promise; and a transaction is in a
\* rid's granted set only if the rid is in one of its lock sets or its
\* request is returning true (its promise is set and the routine is about
\* to put the rid into the lock set): no rid is locked for a transaction
\* whose request returned false.
C40_TimedOutLeavesQueue ==
  \A t \in Txns, rid \in Rids :
    /\ Queued(t, rid) => WaitsFor(t, rid)
    /\ (lockTable[rid].present /\ t \in lockTable[rid].granted) =>
          \/ rid \in sharedLockSet[t] \cup exclusiveLockSet[t]
          \/ WaitsFor(t, rid) /\ lockPc[t].promise \in promises.set

(***************************************************************************)
(* The log manager (log_manager.cpp).  A log record is one cell of a       *)
(* buffer: the model's records are the header-only records (BEGIN, COMMIT, *)
(* ABORT), all of one size, and the buffers hold LogBufferSize of them.    *)
(* The flush thread and the client threads run their statements one at a   *)
(* time: the loads and stores of log_buffer_, log_buffer_size_ and the     *)
(* buffers are what the two kinds of thread share.                         *)
(***************************************************************************)
Clients == 1..MaxClient
Appenders == 1..MaxAppender
AllClients == Clients \cup Appenders
Flusher == MaxClient + MaxAppender + 1  \* the flush thread, as a holder of latch_

INVALID_LSN == -1

\* A cell is a serialized record or the bytes nothing was ever written to.
Record(lsn) == [written |-> TRUE, lsn |-> lsn]
Junk == [written |-> FALSE, lsn |-> INVALID_LSN]

flush_buffer == 3 - log_buffer

NoClientCall == [at |-> "idle", call |-> "none", lsn |-> INVALID_LSN,
                 pos |-> 0, ptr |-> 1, tmp |-> 0, seen |-> {}]
NoLogCall == [op |-> "none", lsn |-> INVALID_LSN, seen |-> {},
              disk |-> {}, persistent |-> INVALID_LSN]

\* The log manager as constructed, before RunFlushThread.
LogInit ==
  /\ log_buffer = 1
  /\ buffers = [b \in 1..2 |-> [i \in 1..LogBufferSize |-> Junk]]
  /\ log_buffer_size = 0
  /\ flush_buffer_size = 0
  /\ next_lsn = 0
  /\ persistent_lsn = INVALID_LSN
  /\ flush_thread_on = FALSE
  /\ ENABLE_LOGGING = FALSE
  /\ latch = 0
  /\ append_latch = 0
  /\ disk = << >>
  /\ flushPc = "none"
  /\ clientPc = [c \in AllClients |-> NoClientCall]
  /\ appended = {}
  /\ logLast = [c \in AllClients |-> NoLogCall]

\* assert(persistent_lsn_ != INVALID_LSN) has failed: the process is gone.
Aborted == flushPc = "aborted"

\* RunFlushThread: the thread starts, takes latch_ and waits on cv_, which
\* releases latch_.  It is called when no flush thread is left to join.
RunFlushThread ==
  /\ ~flush_thread_on
  /\ flushPc = "none"
  /\ ENABLE_LOGGING' = TRUE
  /\ flush_thread_on' = TRUE
  /\ flushPc' = "wait"
  /\ UNCHANGED <<log_buffer, buffers, log_buffer_size, flush_buffer_size,
                 next_lsn, persistent_lsn, latch, append_latch, disk,
                 clientPc, appended, logLast>>
  /\ UNCHANGED nonLogVars

\* cv_.wait_for returns, on a signal or on the timeout, with latch_ taken.
FlushThreadWake ==
  /\ flushPc = "wait" /\ latch = 0
  /\ latch' = Flusher
  /\ flushPc' = "check"
  /\ UNCHANGED <<log_buffer, buffers, log_buffer_size, flush_buffer_size,
                 next_lsn, persistent_lsn, flush_thread_on, append_latch,
                 disk, clientPc, appended, logLast>>
  /\ UNCHANGED ENABLE_LOGGING
  /\ UNCHANGED nonLogVars

\* if (log_buffer_size_ != 0)
FlushThreadCheck ==
  /\ flushPc = "check"
  /\ flushPc' = IF log_buffer_size # 0 THEN "swap" ELSE "notify"
  /\ UNCHANGED <<log_buffer, buffers, log_buffer_size, flush_buffer_size,
                 next_lsn, persistent_lsn, flush_thread_on, latch,
                 append_latch, disk, clientPc, appended, logLast>>
  /\ UNCHANGED ENABLE_LOGGING
  /\ UNCHANGED nonLogVars

\* std::swap(flush_buffer_, log_buffer_)
FlushThreadSwap ==
  /\ flushPc = "swap"
  /\ log_buffer' = flush_buffer
  /\ flushPc' = "size"
  /\ UNCHANGED <<buffers, log_buffer_size, flush_buffer_size, next_lsn,
                 persistent_lsn, flush_thread_on, latch, append_latch, disk,
                 clientPc, appended, logLast>>
  /\ UNCHANGED ENABLE_LOGGING
  /\ UNCHANGED nonLogVars

\* flush_buffer_size_ = log_buffer_size_
FlushThreadSize ==
  /\ flushPc = "size"
  /\ flush_buffer_size' = log_buffer_size
  /\ flushPc' = "reset"
  /\ UNCHANGED <<log_buffer, buffers, log_buffer_size, next_lsn,
                 persistent_lsn, flush_thread_on, latch, append_latch, disk,
                 clientPc, appended, logLast>>
  /\ UNCHANGED ENABLE_LOGGING
  /\ UNCHANGED nonLogVars

\* log_buffer_size_ = 0
FlushThreadReset ==
  /\ flushPc = "reset"
  /\ log_buffer_size' = 0
  /\ flushPc' = "write"
  /\ UNCHANGED <<log_buffer, buffers, flush_buffer_size, next_lsn,
                 persistent_lsn, flush_thread_on, latch, append_latch, disk,
                 clientPc, appended, logLast>>
  /\ UNCHANGED ENABLE_LOGGING
  /\ UNCHANGED nonLogVars

\* disk_manager_->WriteLog(flush_buffer_, flush_buffer_size_)
FlushThreadWrite ==
  /\ flushPc = "write"
  /\ disk' = disk \o SubSeq(buffers[flush_buffer], 1, flush_buffer_size)
  /\ flushPc' = "scan"
  /\ UNCHANGED <<log_buffer, buffers, log_buffer_size, flush_buffer_size,
                 next_lsn, persistent_lsn, flush_thread_on, latch,
                 append_latch, clientPc, appended, logLast>>
  /\ UNCHANGED ENABLE_LOGGING
  /\ UNCHANGED nonLogVars

\* What a cell that was never written reads as: rec->GetLSN() and
\* rec->GetSize() of uninitialized bytes are whatever the bytes hold.
JunkLsns == INVALID_LSN..(MaxLsn - 1)
JunkSizes == 0..LogBufferSize

\* The scan of the flush buffer that follows WriteLog:
\*   while (size < flush_buffer_size_) {
\*     persistent_lsn_ = rec->GetLSN(); size += rec->GetSize(); }
\* as the set of its outcomes: the persistent_lsn_ it leaves, or that it
\* never ends (a size of 0 read from a cell that holds no record).
RECURSIVE ScanFlushBuffer(_, _, _, _)
ScanFlushBuffer(cells, size, limit, lsn) ==
  IF size >= limit THEN {[lsn |-> lsn, ends |-> TRUE]}
  ELSE IF cells[size + 1].written
    THEN ScanFlushBuffer(cells, size + 1, limit, cells[size + 1].lsn)
    ELSE UNION {IF step = 0 THEN {[lsn |-> l, ends |-> FALSE]}
                ELSE ScanFlushBuffer(cells, size + step, limit, l) :
                <<l, step>> \in JunkLsns \X JunkSizes}

\* The scan, assert(persistent_lsn_ != INVALID_LSN), flush_buffer_size_ = 0.
\* A failed assert ends the process in a build that keeps asserts and is
\* nothing in one that does not.
FlushThreadScan ==
  /\ flushPc = "scan"
  /\ \E out \in ScanFlushBuffer(buffers[flush_buffer], 0, flush_buffer_size,
                                persistent_lsn) :
       /\ persistent_lsn' = out.lsn
       /\ \/ /\ out.ends
             /\ flush_buffer_size' = 0
             /\ flushPc' = "notify"
          \/ /\ out.ends /\ out.lsn = INVALID_LSN
             /\ flushPc' = "aborted"
             /\ UNCHANGED flush_buffer_size
          \/ /\ ~out.ends
             /\ flushPc' = "scanning"
             /\ UNCHANGED flush_buffer_size
  /\ UNCHANGED <<log_buffer, buffers, log_buffer_size, next_lsn,
                 flush_thread_on, latch, append_latch, disk, clientPc,
                 appended, logLast>>
  /\ UNCHANGED ENABLE_LOGGING
  /\ UNCHANGED nonLogVars

\* flush.notify_all() wakes every thread inside flush.wait; the loop then
\* goes back to cv_.wait_for, which releases latch_.
Notified(pc) ==
  IF pc.at = "wait1" THEN [pc EXCEPT !.at = "woken1"]
  ELSE IF pc.at = "wait2" THEN [pc EXCEPT !.at = "woken2"]
  ELSE pc

FlushThreadNotify ==
  /\ flushPc = "notify"
  /\ clientPc' = [c \in AllClients |-> Notified(clientPc[c])]
  /\ latch' = 0
  /\ flushPc' = IF flush_thread_on THEN "wait" ELSE "done"
  /\ UNCHANGED <<log_buffer, buffers, log_buffer_size, flush_buffer_size,
                 next_lsn, persistent_lsn, flush_thread_on, append_latch,
                 disk, appended, logLast>>
  /\ UNCHANGED ENABLE_LOGGING
  /\ UNCHANGED nonLogVars

\* The LSNs of the records in the log file.
OnDisk == {disk[i].lsn : i \in {j \in 1..Len(disk) : disk[j].written}}

\* Where a client goes when a FlushImpl is over: to the second FlushImpl of
\* Flush, then back into AppendLogRecord or StopFlushThread, or out of
\* Flush.
AfterFlushImpl(c, at) ==
  IF at \in {"impl1", "woken1"} THEN "impl2"
  ELSE IF clientPc[c].call = "AppendLogRecord" THEN "pos"
  ELSE IF clientPc[c].call = "StopFlushThread" THEN "off"
  ELSE "idle"

FlushImplDone(c, at) ==
  /\ clientPc' = [clientPc EXCEPT ![c] =
                    IF AfterFlushImpl(c, at) = "idle" THEN NoClientCall
                    ELSE [@ EXCEPT !.at = AfterFlushImpl(c, at)]]
  /\ logLast' = IF AfterFlushImpl(c, at) = "idle"
                  THEN [logLast EXCEPT ![c] =
                          [NoLogCall EXCEPT !.op = "Flush",
                                            !.seen = clientPc[c].seen,
                                            !.disk = OnDisk,
                                            !.persistent = persistent_lsn]]
                  ELSE logLast

\* FlushImpl: cv_.notify_all(); lock latch_; if (flush_thread_on)
\* flush.wait(lock), which releases latch_ while it waits.
FlushImpl(c) ==
  /\ ~Aborted
  /\ clientPc[c].at \in {"impl1", "impl2"}
  /\ latch = 0
  /\ IF flush_thread_on
       THEN /\ clientPc' = [clientPc EXCEPT ![c].at =
                              IF @ = "impl1" THEN "wait1" ELSE "wait2"]
            /\ UNCHANGED logLast
       ELSE FlushImplDone(c, clientPc[c].at)
  /\ UNCHANGED <<log_buffer, buffers, log_buffer_size, flush_buffer_size,
                 next_lsn, persistent_lsn, flush_thread_on, latch,
                 append_latch, disk, flushPc, appended>>
  /\ UNCHANGED ENABLE_LOGGING
  /\ UNCHANGED nonLogVars

\* flush.wait returns once it has latch_ again, and FlushImpl releases it.
FlushImplWoken(c) ==
  /\ ~Aborted
  /\ clientPc[c].at \in {"woken1", "woken2"}
  /\ latch = 0
  /\ FlushImplDone(c, clientPc[c].at)
  /\ UNCHANGED <<log_buffer, buffers, log_buffer_size, flush_buffer_size,
                 next_lsn, persistent_lsn, flush_thread_on, latch,
                 append_latch, disk, flushPc, appended>>
  /\ UNCHANGED ENABLE_LOGGING
  /\ UNCHANGED nonLogVars

\* A client calls Flush(); seen is what had been appended by then.
Flush(c) ==
  /\ ~Aborted
  /\ flush_thread_on
  /\ clientPc[c].at = "idle"
  /\ clientPc' = [clientPc EXCEPT ![c] =
                    [NoClientCall EXCEPT !.at = "impl1", !.call = "Flush",
                                         !.seen = appended]]
  /\ UNCHANGED <<log_buffer, buffers, log_buffer_size, flush_buffer_size,
                 next_lsn, persistent_lsn, flush_thread_on, latch,
                 append_latch, disk, flushPc, appended, logLast>>
  /\ UNCHANGED ENABLE_LOGGING
  /\ UNCHANGED nonLogVars

\* A variant of the test of append_latch_ that finds it free always.
AppendLatchIgnored == TRUE

\* std::unique_lock<std::mutex> guard(append_latch_) is entered.
AppendLatchFree == append_latch = 0

\* AppendLogRecord, its first statements: take append_latch_ and
\* log_record.lsn_ = next_lsn_++.
AppendLogRecord(c) ==
  /\ ~Aborted
  /\ flush_thread_on
  /\ clientPc[c].at = "idle"
  /\ AppendLatchFree
  /\ next_lsn < MaxLsn
  /\ append_latch' = c
  /\ next_lsn' = next_lsn + 1
  /\ clientPc' = [clientPc EXCEPT ![c] =
                    [NoClientCall EXCEPT !.at = "check",
                                         !.call = "AppendLogRecord",
                                         !.lsn = next_lsn]]
  /\ UNCHANGED <<log_buffer, buffers, log_buffer_size, flush_buffer_size,
                 persistent_lsn, flush_thread_on, latch, disk, flushPc,
                 appended, logLast>>
  /\ UNCHANGED ENABLE_LOGGING
  /\ UNCHANGED nonLogVars

\* if (log_record.GetSize() + log_buffer_size_ > LOG_BUFFER_SIZE) Flush();
AppendCheck(c) ==
  /\ ~Aborted
  /\ clientPc[c].at = "check"
  /\ clientPc' = [clientPc EXCEPT ![c].at =
                    IF 1 + log_buffer_size > LogBufferSize
                      THEN "impl1" ELSE "pos"]
  /\ UNCHANGED <<log_buffer, buffers, log_buffer_size, flush_buffer_size,
                 next_lsn, persistent_lsn, flush_thread_on, latch,
                 append_latch, disk, flushPc, appended, logLast>>
  /\ UNCHANGED ENABLE_LOGGING
  /\ UNCHANGED nonLogVars

\* int pos = log_buffer_size_;
AppendPos(c) ==
  /\ ~Aborted
  /\ clientPc[c].at = "pos"
  /\ clientPc' = [clientPc EXCEPT ![c].at = "ptr", ![c].pos = log_buffer_size]
  /\ UNCHANGED <<log_buffer, buffers, log_buffer_size, flush_buffer_size,
                 next_lsn, persistent_lsn, flush_thread_on, latch,
                 append_latch, disk, flushPc, appended, logLast>>
  /\ UNCHANGED ENABLE_LOGGING
  /\ UNCHANGED nonLogVars

\* memcpy(log_buffer_ + pos, ...): the load of log_buffer_
AppendPtr(c) ==
  /\ ~Aborted
  /\ clientPc[c].at = "ptr"
  /\ clientPc' = [clientPc EXCEPT ![c].at = "copy", ![c].ptr = log_buffer]
  /\ UNCHANGED <<log_buffer, buffers, log_buffer_size, flush_buffer_size,
                 next_lsn, persistent_lsn, flush_thread_on, latch,
                 append_latch, disk, flushPc, appended, logLast>>
  /\ UNCHANGED ENABLE_LOGGING
  /\ UNCHANGED nonLogVars

\* memcpy(log_buffer_ + pos, ...): the copy of the record.  A record that
\* does not fit the buffer lands on the memory behind it.
AppendCopy(c) ==
  /\ ~Aborted
  /\ clientPc[c].at = "copy"
  /\ buffers' = IF clientPc[c].pos < LogBufferSize
                  THEN [buffers EXCEPT ![clientPc[c].ptr][clientPc[c].pos + 1] =
                          Record(clientPc[c].lsn)]
                  ELSE buffers
  /\ clientPc' = [clientPc EXCEPT ![c].at = "add"]
  /\ UNCHANGED <<log_buffer, log_buffer_size, flush_buffer_size, next_lsn,
                 persistent_lsn, flush_thread_on, latch, append_latch, disk,
                 flushPc, appended, logLast>>
  /\ UNCHANGED ENABLE_LOGGING
  /\ UNCHANGED nonLogVars

\* log_buffer_size_ += log_record.GetSize(): the load
AppendAdd(c) ==
  /\ ~Aborted
  /\ clientPc[c].at = "add"
  /\ clientPc' = [clientPc EXCEPT ![c].at = "store", ![c].tmp = log_buffer_size]
  /\ UNCHANGED <<log_buffer, buffers, log_buffer_size, flush_buffer_size,
                 next_lsn, persistent_lsn, flush_thread_on, latch,
                 append_latch, disk, flushPc, appended, logLast>>
  /\ UNCHANGED ENABLE_LOGGING
  /\ UNCHANGED nonLogVars

\* log_buffer_size_ += log_record.GetSize(): the store; return the lsn and
\* release append_latch_.
AppendReturn(c) ==
  /\ ~Aborted
  /\ clientPc[c].at = "store"
  /\ log_buffer_size' = clientPc[c].tmp + 1
  /\ append_latch' = 0
  /\ appended' = appended \cup {clientPc[c].lsn}
  /\ clientPc' = [clientPc EXCEPT ![c] = NoClientCall]
  /\ logLast' = [logLast EXCEPT ![c] =
                   [NoLogCall EXCEPT !.op = "AppendLogRecord",
                                     !.lsn = clientPc[c].lsn]]
  /\ UNCHANGED <<log_buffer, buffers, flush_buffer_size, next_lsn,
                 persistent_lsn, flush_thread_on, latch, disk, flushPc>>
  /\ UNCHANGED ENABLE_LOGGING
  /\ UNCHANGED nonLogVars

LogNext ==
  \/ RunFlushThread
  \/ FlushThreadWake
  \/ FlushThreadCheck
  \/ FlushThreadSwap
  \/ FlushThreadSize
  \/ FlushThreadReset
  \/ FlushThreadWrite
  \/ FlushThreadScan
  \/ FlushThreadNotify
  \/ \E c \in Clients :
       \/ Flush(c)
       \/ FlushImpl(c)
       \/ FlushImplWoken(c)
       \/ AppendLogRecord(c)
       \/ AppendCheck(c)
       \/ AppendPos(c)
       \/ AppendPtr(c)
       \/ AppendCopy(c)
       \/ AppendAdd(c)
       \/ AppendReturn(c)

\* The cells of the two buffers that wait to be written: the log buffer up
\* to log_buffer_size_ and the flush buffer up to flush_buffer_size_.
Buffered ==
  {buffers[log_buffer][i].lsn :
     i \in {j \in 1..LogBufferSize :
              j <= log_buffer_size /\ buffers[log_buffer][j].written}}
  \cup {buffers[flush_buffer][i].lsn :
          i \in {j \in 1..LogBufferSize :
                   j <= flush_buffer_size /\ buffers[flush_buffer][j].written}}

\* C5: with clients appending and the flush thread running in any
\* interleaving, the log file is the appended records, each written once,
\* whole and in LSN order: every LSN up to persistent_lsn_ is in the file
\* exactly once, the file holds nothing but records in increasing LSN order,
\* and, whenever the flush thread is between two cycles, a record whose
\* AppendLogRecord has returned is in the file or in a buffer on its way to
\* it.
C5_LogIntegrity ==
  /\ \A i \in 1..Len(disk) : disk[i].written
  /\ \A i, j \in 1..Len(disk) : i < j => disk[i].lsn < disk[j].lsn
  /\ \A l \in 0..persistent_lsn : l \in OnDisk
  /\ flushPc = "wait" => appended \subseteq OnDisk \cup Buffered

\* C4: when Flush() returns, every record whose AppendLogRecord had returned
\* before the call is in the log file, and persistent_lsn_ is at least its
\* LSN.
C4_FlushForcesLog ==
  \A c \in Clients :
    logLast[c].op = "Flush" =>
      \A l \in logLast[c].seen :
        l \in logLast[c].disk /\ logLast[c].persistent >= l

(***************************************************************************)
(* C33.  StopFlushThread, called by the thread that appends.               *)
(***************************************************************************)
\* StopFlushThread, its first statements: if (flush_thread_on == true)
\* { ENABLE_LOGGING = false; Flush(); seen is what had been appended by then.
StopFlushThread(c) ==
  /\ ~Aborted
  /\ flush_thread_on
  /\ clientPc[c].at = "idle"
  /\ ENABLE_LOGGING' = FALSE
  /\ clientPc' = [clientPc EXCEPT ![c] =
                    [NoClientCall EXCEPT !.at = "impl1",
                                         !.call = "StopFlushThread",
                                         !.seen = appended]]
  /\ UNCHANGED <<log_buffer, buffers, log_buffer_size, flush_buffer_size,
                 next_lsn, persistent_lsn, flush_thread_on, latch,
                 append_latch, disk, flushPc, appended, logLast>>
  /\ UNCHANGED nonLogVars

\* flush_thread_on = false
StopFlushThreadOff(c) ==
  /\ ~Aborted
  /\ clientPc[c].at = "off"
  /\ flush_thread_on' = FALSE
  /\ clientPc' = [clientPc EXCEPT ![c].at = "join"]
  /\ UNCHANGED <<log_buffer, buffers, log_buffer_size, flush_buffer_size,
                 next_lsn, persistent_lsn, latch, append_latch, disk, flushPc,
                 appended, logLast, ENABLE_LOGGING>>
  /\ UNCHANGED nonLogVars

\* flush_thread_->join() returns, the flush thread having left
\* FlushThread; delete flush_thread_.
StopFlushThreadJoin(c) ==
  /\ ~Aborted
  /\ clientPc[c].at = "join"
  /\ flushPc = "done"
  /\ flushPc' = "none"
  /\ clientPc' = [clientPc EXCEPT ![c] = NoClientCall]
  /\ logLast' = [logLast EXCEPT ![c] =
                   [NoLogCall EXCEPT !.op = "StopFlushThread",
                                     !.seen = clientPc[c].seen,
                                     !.disk = OnDisk,
                                     !.persistent = persistent_lsn]]
  /\ UNCHANGED <<log_buffer, buffers, log_buffer_size, flush_buffer_size,
                 next_lsn, persistent_lsn, flush_thread_on, latch,
                 append_latch, disk, appended, ENABLE_LOGGING>>
  /\ UNCHANGED nonLogVars

StopNext ==
  \/ LogNext
  \/ \E c \in Clients :
       \/ StopFlushThread(c)
       \/ StopFlushThreadOff(c)
       \/ StopFlushThreadJoin(c)

\* The steps of the flush thread.
FlushThreadStep ==
  \/ FlushThreadWake
  \/ FlushThreadCheck
  \/ FlushThreadSwap
  \/ FlushThreadSize
  \/ FlushThreadReset
  \/ FlushThreadWrite
  \/ FlushThreadScan
  \/ FlushThreadNotify

\* The steps of a client inside StopFlushThread.
StopStep(c) ==
  /\ clientPc[c].call = "StopFlushThread"
  /\ \/ FlushImpl(c)
     \/ FlushImplWoken(c)
     \/ StopFlushThreadOff(c)
     \/ StopFlushThreadJoin(c)

\* The thread of c is inside StopFlushThread.
InStop(c) == clientPc[c].call = "StopFlushThread"

\* StopFlushThread returns to the thread of c in this step.
StopReturns(c) == InStop(c) /\ clientPc'[c].at = "idle"

\* C33: StopFlushThread, called while the flush thread runs, returns in the
\* end; and when it returns ENABLE_LOGGING is false, flush_thread_on is
\* false and the flush thread has left FlushThread, every record that had
\* been appended before the call is in the log file, and the log buffer is
\* empty.
C33_StopDrains ==
  /\ [][\A c \in Clients :
          StopReturns(c) =>
            /\ ~ENABLE_LOGGING'
            /\ ~flush_thread_on'
            /\ flushPc = "done"
            /\ clientPc[c].seen \subseteq OnDisk'
            /\ log_buffer_size' = 0
            /\ flush_buffer_size' = 0]_vars
  /\ \A c \in Clients : InStop(c) ~> ~InStop(c)

(***************************************************************************)
(* C19.  The appenders: several threads that call AppendLogRecord, next to *)
(* the flush thread.                                                       *)
(***************************************************************************)
AppendNext ==
  \/ RunFlushThread
  \/ FlushThreadWake
  \/ FlushThreadCheck
  \/ FlushThreadSwap
  \/ FlushThreadSize
  \/ FlushThreadReset
  \/ FlushThreadWrite
  \/ FlushThreadScan
  \/ FlushThreadNotify
  \/ \E c \in Appenders :
       \/ FlushImpl(c)
       \/ FlushImplWoken(c)
       \/ AppendLogRecord(c)
       \/ AppendCheck(c)
       \/ AppendPos(c)
       \/ AppendPtr(c)
       \/ AppendCopy(c)
       \/ AppendAdd(c)
       \/ AppendReturn(c)

\* The thread of c is inside AppendLogRecord.
InAppend(c) == clientPc[c].call = "AppendLogRecord"

\* The thread of c has copied its record into the buffer.
Copied(c) == InAppend(c) /\ clientPc[c].at \in {"add", "store"}

\* C19: every record gets an LSN of its own; a record is placed in the
\* buffer after every record with a smaller LSN and before every record
\* with a greater one, whatever threads append; and AppendLogRecord returns
\* the LSN that it wrote into the record's header.
C19_LsnOrder ==
  [][\A c \in AllClients :
       /\ InAppend(c)' =>
            /\ clientPc'[c].lsn \notin appended'
            /\ \A d \in AllClients \ {c} :
                 InAppend(d)' => clientPc'[d].lsn # clientPc'[c].lsn
       /\ (clientPc[c].at = "copy" /\ clientPc'[c].at = "add") =>
            /\ \A l \in appended : l < clientPc[c].lsn
            /\ \A d \in AllClients \ {c} :
                 /\ Copied(d) => clientPc[d].lsn < clientPc[c].lsn
                 /\ (InAppend(d) /\ ~Copied(d)) => clientPc[d].lsn > clientPc[c].lsn
            /\ clientPc[c].pos < LogBufferSize =>
                 buffers'[clientPc[c].ptr][clientPc[c].pos + 1].lsn = clientPc[c].lsn
       /\ (clientPc[c].at = "store" /\ clientPc'[c].at = "idle") =>
            /\ logLast'[c].op = "AppendLogRecord"
            /\ logLast'[c].lsn = clientPc[c].lsn
    ]_vars

\* Both appenders have had records placed, the one that appended last
\* waits for append_latch_ no more, and the other has returned a smaller
\* LSN; the flush thread has written records in between.
C19_Witness ==
  \E c, d \in Appenders :
    /\ c # d
    /\ logLast[c].op = "AppendLogRecord" /\ logLast[d].op = "AppendLogRecord"
    /\ logLast[d].lsn < logLast[c].lsn
    /\ Copied(d) /\ clientPc[d].lsn > logLast[c].lsn
    /\ OnDisk # {}

(***************************************************************************)
(* Log recovery (log_recovery.cpp).  The log file is a sequence of cells.   *)
(* A BEGIN, COMMIT or INSERT record is one cell; a NEWPAGE record is two,  *)
(* its header and the prev_page_id_ behind it.  LOG_BUFFER_SIZE is         *)
(* LogBufferSize cells: an offset into the file is an index of a cell.     *)
(* The run before the crash is transactions that insert tuples into one    *)
(* table page, page 0 of its table, and that give the table its next       *)
(* page; the table page, the transaction manager and the disk manager are  *)
(* not part of the sources and follow the specification.                   *)
(***************************************************************************)
LogTxns == 1..MaxLogTxn
Tuples == 1..MaxTuple

\* The longest log of the run, and the LSNs a record can name.  lsn_mapping_
\* is a std::map read with operator[] only, which gives 0 for an LSN that
\* has no entry: it is a function that is 0 where nothing was stored.
MaxLogLen == 2 * MaxLogTxn + MaxTuple + MaxNewPage
Lsns == INVALID_LSN..MaxLogLen

LogRecord(type, lsn, txn, prev, rid) ==
  [size |-> 1, type |-> type, lsn |-> lsn, txn |-> txn, prev_lsn |-> prev,
   rid |-> rid]

\* The second cell of a NEWPAGE record: prev_page_id_, the page id 0.  Read
\* as a header, its size_ is 0.
Payload == [size |-> 0, type |-> "PAYLOAD", lsn |-> 0, txn |-> 0,
            prev_lsn |-> 0, rid |-> 0]

\* The cells of the log file at which a record starts, and next_lsn_: the
\* number of records appended.
Headers(file) == {i \in 1..Len(file) : file[i].type # "PAYLOAD"}

NextLsn == Cardinality(Headers(logFile))

\* What ReadLog leaves behind the end of the file: zero bytes.
ZeroCell == [size |-> 0, type |-> "INVALID", lsn |-> 0, txn |-> 0,
             prev_lsn |-> 0, rid |-> 0]

\* A table page: its LSN and the RIDs that hold a tuple.
EmptyPage == [lsn |-> INVALID_LSN, tuples |-> {}]

NoRecovery ==
  [pc |-> "run", offset |-> 0, buffer |-> [i \in 1..LogBufferSize |-> ZeroCell],
   data |-> 0, size |-> 0, fetchCnt |-> 0,
   active_txn |-> << >>, lsn_mapping |-> [l \in Lsns |-> 0],
   losers |-> {}, lastLsn |-> INVALID_LSN, redos |-> 0, once |-> EmptyPage,
   scanned |-> << >>]

RecoveryInit ==
  /\ logFile = << >>
  /\ tablePage = EmptyPage
  /\ diskPage = EmptyPage
  /\ txnTable = [t \in LogTxns |-> [state |-> "none", prev_lsn |-> INVALID_LSN]]
  /\ recovery = NoRecovery

\* TransactionManager::Begin: a BEGIN record.
RunBegin(t) ==
  /\ recovery.pc = "run"
  /\ txnTable[t].state = "none"
  /\ logFile' = Append(logFile,
                   LogRecord("BEGIN", NextLsn, t, INVALID_LSN, 0))
  /\ txnTable' = [txnTable EXCEPT ![t] = [state |-> "GROWING",
                                          prev_lsn |-> NextLsn]]
  /\ UNCHANGED <<tablePage, diskPage, recovery>>
  /\ UNCHANGED nonRecoveryVars

\* TablePage::InsertTuple with logging on: an INSERT record, the tuple in
\* the page, and the record's LSN as the page's.
RunInsertTuple(t, rid) ==
  /\ recovery.pc = "run"
  /\ txnTable[t].state = "GROWING"
  /\ rid \notin tablePage.tuples
  /\ logFile' = Append(logFile,
                   LogRecord("INSERT", NextLsn, t, txnTable[t].prev_lsn, rid))
  /\ tablePage' = [lsn |-> NextLsn, tuples |-> tablePage.tuples \cup {rid}]
  /\ txnTable' = [txnTable EXCEPT ![t].prev_lsn = NextLsn]
  /\ UNCHANGED <<diskPage, recovery>>
  /\ UNCHANGED nonRecoveryVars

\* TransactionManager::Commit: a COMMIT record.
RunCommit(t) ==
  /\ recovery.pc = "run"
  /\ txnTable[t].state = "GROWING"
  /\ logFile' = Append(logFile,
                   LogRecord("COMMIT", NextLsn, t, txnTable[t].prev_lsn, 0))
  /\ txnTable' = [txnTable EXCEPT ![t] = [state |-> "COMMITTED",
                                          prev_lsn |-> NextLsn]]
  /\ UNCHANGED <<tablePage, diskPage, recovery>>
  /\ UNCHANGED nonRecoveryVars

\* TablePage::Init of the table's next page with logging on: a NEWPAGE
\* record that carries the id of the page before it, the modelled page.
RunNewPage(t) ==
  /\ recovery.pc = "run"
  /\ txnTable[t].state = "GROWING"
  /\ Cardinality({i \in Headers(logFile) : logFile[i].type = "NEWPAGE"}) < MaxNewPage
  /\ logFile' = logFile \o
       <<[LogRecord("NEWPAGE", NextLsn, t, txnTable[t].prev_lsn, 0) EXCEPT !.size = 2],
         Payload>>
  /\ txnTable' = [txnTable EXCEPT ![t].prev_lsn = NextLsn]
  /\ UNCHANGED <<tablePage, diskPage, recovery>>
  /\ UNCHANGED nonRecoveryVars

\* The buffer pool writes the table page to disk; the log is on disk up to
\* the page's LSN.
RunFlushPage ==
  /\ recovery.pc = "run"
  /\ diskPage # tablePage
  /\ diskPage' = tablePage
  /\ UNCHANGED <<logFile, tablePage, txnTable, recovery>>
  /\ UNCHANGED nonRecoveryVars

\* The crash: what is left is the log file and the page as on disk.
Crash ==
  /\ recovery.pc = "run"
  /\ tablePage' = diskPage
  /\ recovery' = [recovery EXCEPT !.pc = "crashed"]
  /\ UNCHANGED <<logFile, diskPage, txnTable>>
  /\ UNCHANGED nonRecoveryVars

\* DiskManager::ReadLog(log_buffer_, LOG_BUFFER_SIZE, offset): false, and
\* the buffer as it was, at or behind the end of the file; else the cells
\* from offset on, zero-filled behind the end of the file.
ReadLog(buffer, offset) ==
  IF offset >= Len(logFile) THEN [ret |-> FALSE, buffer |-> buffer]
  ELSE [ret |-> TRUE,
        buffer |-> [i \in 1..LogBufferSize |->
                      IF offset + i <= Len(logFile) THEN logFile[offset + i]
                      ELSE ZeroCell]]

\* DeserializeLogRecord(data, size, record): false if the record's size is
\* not positive or more than what is left of the buffer.
DeserializeLogRecord(cell, size) == ~(cell.size > size \/ cell.size <= 0)

\* active_txn_[txn] = lsn and active_txn_.erase(txn)
MapPut(f, k, v) == [x \in DOMAIN f \cup {k} |-> IF x = k THEN v ELSE f[x]]
MapErase(f, k) == [x \in DOMAIN f \ {k} |-> f[x]]

\* Redo up to its inner loop: the first ReadLog.
RedoBegin ==
  /\ recovery.pc = "crashed"
  /\ LET read == ReadLog(recovery.buffer, 0)
     IN recovery' = [recovery EXCEPT
                       !.pc = IF read.ret THEN "redo" ELSE "redone",
                       !.offset = 0, !.fetchCnt = 0, !.buffer = read.buffer,
                       !.data = 0, !.size = LogBufferSize, !.redos = 1,
                       !.scanned = << >>]
  /\ UNCHANGED <<logFile, tablePage, diskPage, txnTable>>
  /\ UNCHANGED nonRecoveryVars

\* What Redo makes of the page for a record it applies: InsertTuple for
\* INSERT; for NEWPAGE, Init of the page record.prev_page_id_ names, which
\* sets its tuple count to 0.
Applied(page, record) ==
  IF record.type = "INSERT" THEN [page EXCEPT !.tuples = @ \cup {record.rid}]
  ELSE IF record.type = "NEWPAGE" THEN [page EXCEPT !.tuples = {}]
  ELSE page

\* The record at data, once deserialized: the transaction table, then the
\* page (an INSERT record whose page has an LSN at least the record's takes
\* `continue`, with data and size as they were; a NEWPAGE record is applied
\* without a look at the page's LSN), then lsn_mapping_.  scanned is the
\* file offsets of the records Redo has been through (history).
RedoRecord(r, record) ==
  LET active == IF record.type \in {"COMMIT", "ABORT"}
                  THEN MapErase(r.active_txn, record.txn)
                  ELSE MapPut(r.active_txn, record.txn, record.lsn)
  IN IF record.type = "INSERT" /\ tablePage.lsn >= record.lsn
       THEN [page |-> tablePage, rec |-> [r EXCEPT !.active_txn = active]]
       ELSE [page |-> Applied(tablePage, record),
             rec |-> [r EXCEPT !.active_txn = active,
                               !.lsn_mapping[record.lsn] =
                                  r.data + r.fetchCnt * LogBufferSize,
                               !.fetchCnt = @ + 1,
                               !.data = @ + record.size,
                               !.size = @ - record.size,
                               !.scanned = Append(@, r.offset + r.data)]]

\* One turn of Redo's loops: with the buffer used up, the next ReadLog;
\* else a record, or the return at what does not deserialize.
RedoTurn(r) ==
  IF r.size <= 0
    THEN LET read == ReadLog(r.buffer, r.offset + LogBufferSize)
         IN [page |-> tablePage,
             rec |-> [r EXCEPT !.offset = @ + LogBufferSize,
                               !.buffer = read.buffer,
                               !.pc = IF read.ret THEN "redo" ELSE "redone",
                               !.data = 0, !.size = LogBufferSize]]
  ELSE IF ~DeserializeLogRecord(r.buffer[r.data + 1], r.size)
    THEN [page |-> tablePage, rec |-> [r EXCEPT !.pc = "redone"]]
  ELSE RedoRecord(r, r.buffer[r.data + 1])

\* A turn of a loop that changes nothing is taken again and again: the
\* call never returns.
Turned(r, turn) ==
  IF turn.rec = r /\ turn.page = tablePage
    THEN [r EXCEPT !.pc = "hangs"] ELSE turn.rec

Redo ==
  /\ recovery.pc = "redo"
  /\ tablePage' = RedoTurn(recovery).page
  /\ recovery' = Turned(recovery, RedoTurn(recovery))
  /\ UNCHANGED <<logFile, diskPage, txnTable>>
  /\ UNCHANGED nonRecoveryVars

\* Undo up to its loops: the losers are the entries of active_txn_.
UndoBegin ==
  /\ recovery.pc = "redone"
  /\ recovery' = [recovery EXCEPT !.pc = "undo",
                                  !.losers = DOMAIN recovery.active_txn,
                                  !.lastLsn = INVALID_LSN]
  /\ UNCHANGED <<logFile, tablePage, diskPage, txnTable>>
  /\ UNCHANGED nonRecoveryVars

\* for (auto item : active_txn_): the next loser, or the return.
UndoNext ==
  /\ recovery.pc = "undo"
  /\ IF recovery.losers = {}
       THEN recovery' = [recovery EXCEPT !.pc = "recovered"]
       ELSE \E t \in recovery.losers :
              recovery' = [recovery EXCEPT !.pc = "undoing",
                                           !.losers = @ \ {t},
                                           !.lastLsn = recovery.active_txn[t]]
  /\ UNCHANGED <<logFile, tablePage, diskPage, txnTable>>
  /\ UNCHANGED nonRecoveryVars

\* One turn of Undo's while (true), in a build without asserts: ReadLog
\* at lsn_mapping_[lastLsn], the record at the head of the buffer, and by
\* its type the break, the inverse operation or `continue`.
UndoTurn(r) ==
  LET read == ReadLog(r.buffer, r.lsn_mapping[r.lastLsn])
      record == IF DeserializeLogRecord(read.buffer[1], LogBufferSize)
                  THEN read.buffer[1]
                  ELSE [ZeroCell EXCEPT !.lsn = INVALID_LSN,
                                        !.prev_lsn = INVALID_LSN]
      rb == [r EXCEPT !.buffer = read.buffer]
  IN IF record.type = "BEGIN"
       THEN [page |-> tablePage, rec |-> [rb EXCEPT !.pc = "undo"]]
     ELSE IF record.type = "INSERT" /\ tablePage.lsn >= record.lsn
       THEN [page |-> tablePage, rec |-> rb]
     ELSE [page |-> IF record.type = "INSERT"
                      THEN [tablePage EXCEPT !.tuples = @ \ {record.rid}]
                      ELSE tablePage,
           rec |-> [rb EXCEPT !.lastLsn = record.prev_lsn]]

\* Whether a turn of Undo fails one of its asserts: assert(retRead),
\* assert(retDeserial), assert(type == UPDATE || INSERT || MARKDELETE).
UndoAsserts(r) ==
  LET read == ReadLog(r.buffer, r.lsn_mapping[r.lastLsn])
      record == read.buffer[1]
  IN \/ ~read.ret
     \/ ~DeserializeLogRecord(record, LogBufferSize)
     \/ record.type \notin {"BEGIN", "INSERT"}

\* A failed assert ends the process in a build that keeps asserts.
Undo ==
  /\ recovery.pc = "undoing"
  /\ \/ /\ UndoAsserts(recovery)
        /\ recovery' = [recovery EXCEPT !.pc = "aborted"]
        /\ UNCHANGED tablePage
     \/ /\ tablePage' = UndoTurn(recovery).page
        /\ recovery' = Turned(recovery, UndoTurn(recovery))
  /\ UNCHANGED <<logFile, diskPage, txnTable>>
  /\ UNCHANGED nonRecoveryVars

RecoveryNext ==
  \/ \E t \in LogTxns : RunBegin(t)
  \/ \E t \in LogTxns, rid \in Tuples : RunInsertTuple(t, rid)
  \/ \E t \in LogTxns : RunCommit(t)
  \/ RunFlushPage
  \/ Crash
  \/ RedoBegin
  \/ Redo
  \/ UndoBegin
  \/ UndoNext
  \/ Undo

\* The run with NEWPAGE records in the log.
ScanNext ==
  \/ RecoveryNext
  \/ \E t \in LogTxns : RunNewPage(t)

\* The transactions with a COMMIT record in the log file, and the RIDs the
\* INSERT records of a set of transactions name.
Committed ==
  {logFile[i].txn : i \in {j \in 1..Len(logFile) : logFile[j].type = "COMMIT"}}
InsertedBy(txns) ==
  {logFile[i].rid : i \in {j \in 1..Len(logFile) :
                             logFile[j].type = "INSERT" /\ logFile[j].txn \in txns}}

\* C3: after a crash Redo and then Undo run to their end, and leave in the
\* table page the tuples inserted by the transactions that have a COMMIT
\* record in the log file, and none inserted by a transaction that has not.
C3_RecoveryRestores ==
  /\ recovery.pc \notin {"hangs", "aborted"}
  /\ recovery.pc = "recovered" => tablePage.tuples = InsertedBy(Committed)

(***************************************************************************)
(* C34, C35, C36, C38                                                      *)
(***************************************************************************)
\* C34: when Redo has returned, lsn_mapping_ gives for the LSN of every
\* record it has scanned the offset in the log file at which the record
\* starts, so that ReadLog at lsn_mapping_[lsn] has the record with that
\* LSN at the head of the buffer, however many records the log holds.
C34_MappingGivesOffsets ==
  recovery.pc = "redone" =>
    \A k \in 1..Len(recovery.scanned) :
      LET offset == recovery.scanned[k]
          lsn == logFile[offset + 1].lsn
      IN  /\ recovery.lsn_mapping[lsn] = offset
          /\ ReadLog(recovery.buffer, recovery.lsn_mapping[lsn]).ret
          /\ ReadLog(recovery.buffer, recovery.lsn_mapping[lsn]).buffer[1].lsn = lsn

\* Redo is at a record that deserializes.
RedoAtRecord ==
  /\ recovery.pc = "redo"
  /\ recovery.size > 0
  /\ DeserializeLogRecord(recovery.buffer[recovery.data + 1], recovery.size)

\* The records that modify a page.
PageRecordTypes ==
  {"NEWPAGE", "INSERT", "MARKDELETE", "APPLYDELETE", "ROLLBACKDELETE", "UPDATE"}

\* C35: Redo applies a record that modifies a page only if the page's LSN
\* is smaller than the record's: a turn of Redo at such a record whose page
\* has an LSN greater than or equal to the record's leaves the page as it
\* was.
C35_RedoComparesLsn ==
  [][RedoAtRecord =>
       LET record == recovery.buffer[recovery.data + 1]
       IN  (record.type \in PageRecordTypes /\ tablePage.lsn >= record.lsn)
             => tablePage' = tablePage]_vars

\* C36: when Redo has returned it has been through every record of the log
\* file, each once and in the order of the file, wherever the records lie
\* in the chunks of LOG_BUFFER_SIZE that it reads: a record that the end of
\* the buffer cuts off is read again with the next chunk.
C36_ScansEveryRecord ==
  recovery.pc = "redone" =>
    /\ Len(recovery.scanned) = Cardinality(Headers(logFile))
    /\ \A k \in 1..Len(recovery.scanned) :
         /\ recovery.scanned[k] + 1 \in Headers(logFile)
         /\ \A j \in 1..(k - 1) : recovery.scanned[j] < recovery.scanned[k]

\* C38: Redo and Undo terminate: no turn of their loops leaves everything
\* as it was, also at a record whose page has an LSN greater than or equal
\* to the record's.
C38_RecoveryTerminates == recovery.pc # "hangs"

(***************************************************************************)
(* C20.  Redo run a second time over the log that a first Redo has read.   *)
(***************************************************************************)
\* Redo called again once it has returned: by the same LogRecovery, whose
\* offset_ is where the first call left it, or by a LogRecovery made anew
\* (offset_ = 0, active_txn_ and lsn_mapping_ empty).  The table page is
\* the one the first call left.
RedoAgain(fresh) ==
  /\ recovery.pc = "redone"
  /\ recovery.redos = 1
  /\ LET r == IF fresh
                THEN [NoRecovery EXCEPT !.buffer = recovery.buffer]
                ELSE recovery
         read == ReadLog(r.buffer, r.offset)
     IN recovery' = [r EXCEPT !.pc = IF read.ret THEN "redo" ELSE "redone",
                              !.fetchCnt = 0, !.buffer = read.buffer,
                              !.data = 0, !.size = LogBufferSize,
                              !.redos = 2, !.once = tablePage]
  /\ UNCHANGED <<logFile, tablePage, diskPage, txnTable>>
  /\ UNCHANGED nonRecoveryVars

RedoNext ==
  \/ \E t \in LogTxns : RunBegin(t)
  \/ \E t \in LogTxns, rid \in Tuples : RunInsertTuple(t, rid)
  \/ \E t \in LogTxns : RunCommit(t)
  \/ RunFlushPage
  \/ Crash
  \/ RedoBegin
  \/ Redo
  \/ \E fresh \in BOOLEAN : RedoAgain(fresh)

\* C20: Redo is idempotent: it skips the records that the page reflects
\* already and returns, and a second Redo over the same log returns with
\* the table page as the first Redo left it.
C20_RedoIdempotent ==
  /\ recovery.pc # "hangs"
  /\ (recovery.redos = 2 /\ recovery.pc = "redone") => tablePage = recovery.once

(***************************************************************************)
(* The bytes of a log record: AppendLogRecord's serialization              *)
(* (log_manager.cpp) and DeserializeLogRecord (log_recovery.cpp).  A       *)
(* buffer is a sequence of bytes, an int32_t four of them, low byte        *)
(* first.  The header is size_, lsn_, txn_id_, prev_lsn_ and               *)
(* log_record_type_; a RID is page_id and slot_num; Tuple::SerializeTo     *)
(* writes the tuple's length as an int32_t and then its data, and          *)
(* Tuple::DeserializeFrom reads them back.  These three layouts are not    *)
(* part of the sources.                                                    *)
(***************************************************************************)
LogRecordTypes ==
  <<"INVALID", "INSERT", "MARKDELETE", "APPLYDELETE", "ROLLBACKDELETE",
    "UPDATE", "BEGIN", "COMMIT", "ABORT", "NEWPAGE">>
TypeCode(type) == CHOOSE i \in 1..Len(LogRecordTypes) : LogRecordTypes[i] = type
DeleteTypes == {"MARKDELETE", "APPLYDELETE", "ROLLBACKDELETE"}

\* The four bytes of an int32_t (two's complement), and the int32_t of
\* four bytes.
Bytes32(x) ==
  LET u == IF x < 0 THEN (x + 2147483647) + 1 ELSE x
  IN <<u % 256, (u \div 256) % 256, (u \div 65536) % 256,
       ((u \div 16777216) % 256) + (IF x < 0 THEN 128 ELSE 0)>>
Int32(b) ==
  IF b[4] >= 128
    THEN (b[1] + 256 * b[2] + 65536 * b[3] + 16777216 * (b[4] - 128) - 2147483647) - 1
    ELSE b[1] + 256 * b[2] + 65536 * b[3] + 16777216 * b[4]

\* The bytes of s from offset `from` on, `n` of them.
Slice(s, from, n) == [i \in 1..n |-> s[from + i]]

HEADER_SIZE == 20
SizeofRID == 8
SizeofInt32 == 4

NoRID == [page_id |-> INVALID_PAGE_ID, slot_num |-> -1]
RIDBytes(rid) == Bytes32(rid.page_id) \o Bytes32(rid.slot_num)
RIDAt(s, from) == [page_id |-> Int32(Slice(s, from, 4)),
                   slot_num |-> Int32(Slice(s, from + 4, 4))]

\* Tuple::SerializeTo and Tuple::GetLength
SerializeTo(tuple) == Bytes32(Len(tuple)) \o tuple

\* A LogRecord as its default constructor leaves it.
NoLogRecord ==
  [size |-> 0, lsn |-> INVALID_LSN, txn_id |-> -1, prev_lsn |-> INVALID_LSN,
   type |-> "INVALID", rid |-> NoRID, tuple |-> << >>, old_tuple |-> << >>,
   new_tuple |-> << >>, prev_page_id |-> INVALID_PAGE_ID]

\* The records the transactions and the table page make: the LogRecord
\* constructors, which set size_ to the length of what is serialized; the
\* record before a transaction's record is the one with the LSN below.
TupleValues == UNION {[1..n -> TupleBytes] : n \in 0..MaxTupleLen}
CodecRids == {[page_id |-> 0, slot_num |-> 0], [page_id |-> 1, slot_num |-> 2]}
Headed(type, lsn, txn, prev, size) ==
  [NoLogRecord EXCEPT !.type = type, !.lsn = lsn, !.txn_id = txn,
                      !.prev_lsn = prev, !.size = size]
LogRecords ==
  UNION {
    {Headed(type, lsn, txn, lsn - 1, HEADER_SIZE) : type \in {"BEGIN", "COMMIT", "ABORT"}}
    \cup {[Headed(type, lsn, txn, lsn - 1, HEADER_SIZE + SizeofRID + SizeofInt32 + Len(t))
             EXCEPT !.rid = rid, !.tuple = t] :
            type \in DeleteTypes \cup {"INSERT"}, rid \in CodecRids, t \in TupleValues}
    \cup {[Headed("UPDATE", lsn, txn, lsn - 1,
                  HEADER_SIZE + SizeofRID + Len(o) + Len(n) + 2 * SizeofInt32)
             EXCEPT !.rid = rid, !.old_tuple = o, !.new_tuple = n] :
            rid \in CodecRids, o \in TupleValues, n \in TupleValues}
    \cup {[Headed("NEWPAGE", lsn, txn, lsn - 1, HEADER_SIZE + SizeofInt32)
             EXCEPT !.prev_page_id = p] : p \in {INVALID_PAGE_ID, 3}}
    : lsn \in 0..MaxCodecLsn, txn \in {1}}

\* AppendLogRecord from the memcpy of the header on: the bytes written at
\* log_buffer_ + pos.
Serialized(r) ==
  LET header == Bytes32(r.size) \o Bytes32(r.lsn) \o Bytes32(r.txn_id)
                  \o Bytes32(r.prev_lsn) \o Bytes32(TypeCode(r.type) - 1)
  IN IF r.type = "INSERT" \/ r.type \in DeleteTypes
       THEN header \o RIDBytes(r.rid) \o SerializeTo(r.tuple)
     ELSE IF r.type = "UPDATE"
       THEN header \o RIDBytes(r.rid) \o SerializeTo(r.old_tuple)
              \o SerializeTo(r.new_tuple)
     ELSE IF r.type = "NEWPAGE"
       THEN header \o Bytes32(r.prev_page_id)
     ELSE header

\* Tuple::DeserializeFrom(storage) with storage at offset `from` of s: the
\* length, then as many bytes of data.  A read that leaves the bytes of
\* the record is a read of whatever the buffer holds there, or of memory
\* behind the buffer.
InRecord(s, from) ==
  /\ from + SizeofInt32 <= Len(s)
  /\ Int32(Slice(s, from, 4)) >= 0
  /\ from + SizeofInt32 + Int32(Slice(s, from, 4)) <= Len(s)
DeserializeFrom(s, from) == Slice(s, from + SizeofInt32, Int32(Slice(s, from, 4)))

\* The new tuple of an UPDATE record is read at
\*   pos + sizeof(RID) + log_record.old_tuple_.GetLength().
NewTupleOffset(old) == HEADER_SIZE + SizeofRID + Len(old)

\* DeserializeLogRecord(data, size, log_record) on a record that fits in
\* the buffer, up to the new tuple of an UPDATE record.
Deserialized(s) ==
  LET type == LogRecordTypes[Int32(Slice(s, 16, 4)) + 1]
      r == [NoLogRecord EXCEPT !.size = Int32(Slice(s, 0, 4)),
                               !.lsn = Int32(Slice(s, 4, 4)),
                               !.txn_id = Int32(Slice(s, 8, 4)),
                               !.prev_lsn = Int32(Slice(s, 12, 4)),
                               !.type = type]
  IN IF type = "INSERT" \/ type \in DeleteTypes
       THEN [r EXCEPT !.rid = RIDAt(s, HEADER_SIZE),
                      !.tuple = DeserializeFrom(s, HEADER_SIZE + SizeofRID)]
     ELSE IF type = "UPDATE"
       THEN [r EXCEPT !.rid = RIDAt(s, HEADER_SIZE),
                      !.old_tuple = DeserializeFrom(s, HEADER_SIZE + SizeofRID)]
     ELSE IF type = "NEWPAGE"
       THEN [r EXCEPT !.prev_page_id = Int32(Slice(s, HEADER_SIZE, 4))]
     ELSE r

CodecInit ==
  codec = [pc |-> "none", in |-> NoLogRecord, bytes |-> << >>, out |-> NoLogRecord]

\* AppendLogRecord(log_record): the record's bytes are in the buffer.
AppendBytes(r) ==
  /\ codec.pc = "none"
  /\ codec' = [codec EXCEPT !.pc = "written", !.in = r, !.bytes = Serialized(r)]
  /\ UNCHANGED nonCodecVars

\* DeserializeLogRecord on these bytes.  The new tuple of an UPDATE record
\* whose read leaves the record is any tuple, unless the read ends the
\* process.
DeserializeLogRecordBytes ==
  /\ codec.pc = "written"
  /\ \E r \in {Deserialized(codec.bytes)} :
       \E at \in {NewTupleOffset(r.old_tuple)} :
         IF r.type # "UPDATE"
           THEN codec' = [codec EXCEPT !.pc = "read", !.out = r]
         ELSE IF InRecord(codec.bytes, at)
           THEN codec' = [codec EXCEPT !.pc = "read",
                            !.out = [r EXCEPT !.new_tuple =
                                       DeserializeFrom(codec.bytes, at)]]
         ELSE \/ codec' = [codec EXCEPT !.pc = "crashed", !.out = r]
              \/ \E t \in TupleValues :
                   codec' = [codec EXCEPT !.pc = "read",
                                          !.out = [r EXCEPT !.new_tuple = t]]
  /\ UNCHANGED nonCodecVars

CodecNext ==
  \/ \E r \in LogRecords : AppendBytes(r)
  \/ DeserializeLogRecordBytes

\* C21: DeserializeLogRecord, applied to the bytes that AppendLogRecord
\* wrote for a record of any type, returns and gives back the record:
\* its header fields and its payload, the new tuple of an UPDATE included.
C21_RoundTrip ==
  /\ codec.pc # "crashed"
  /\ codec.pc = "read" => codec.out = codec.in

(***************************************************************************)
(* b_plus_tree.cpp, called with a transaction: the threads take the page   *)
(* latches on the way down (FindLeafPage), hold the pages in the           *)
(* transaction's page set and release them in ReleaseAllLatches.  A thread *)
(* is one call at a time; a step of a thread is the code between two       *)
(* points where it may have to wait (mutex_, a page latch) or where        *)
(* another thread can see what it has written so far.                      *)
(*                                                                         *)
(* Thread 1 inserts the keys 1, 2, ... in this order, every other inserter *)
(* one key above them, and the reader looks keys up with GetValue.         *)
(***************************************************************************)
Inserters == 1..MaxInserter
Reader == MaxInserter + 1
Threads == Inserters \cup {Reader}

\* One more thread removes keys with Remove(key, transaction).
Remover == MaxInserter + 2
Walkers == Threads \cup {Remover}

ReaderKeys == 1..MaxReaderKey

ThreadKeys(t) ==
  IF t = 1 THEN 1..(MaxInsertKey - MaxInserter + 1)
  ELSE {MaxInsertKey - MaxInserter + t}

NoLatch == [w |-> 0, r |-> {}]
NoThreadCall == [pc |-> "idle", op |-> "none", key |-> 0, page_id |-> INVALID_PAGE_ID,
                 pageSet |-> << >>, newRoot |-> FreePage, ret |-> FALSE,
                 calls |-> 0, inserted |-> {}, deleted |-> {}, unheld |-> {}]

ConcInit ==
  /\ mutex = 0
  /\ latches = [i \in PageIds |-> NoLatch]
  /\ threads = [t \in Walkers |-> NoThreadCall]

\* Page::WLatch / RLatch can be taken; WUnlatch / RUnlatch give it back.
CanLatch(op, pid) ==
  IF op = "GetValue" THEN latches[pid].w = 0
  ELSE latches[pid] = NoLatch

Latched(l, t, op, pid) ==
  IF op = "GetValue" THEN [l EXCEPT ![pid].r = @ \cup {t}]
  ELSE [l EXCEPT ![pid].w = t]

RECURSIVE Unlatched(_, _, _)
Unlatched(l, t, pids) ==
  IF pids = << >> THEN l
  ELSE Unlatched([l EXCEPT ![Head(pids)] =
                    [w |-> IF @.w = t THEN 0 ELSE @.w, r |-> @.r \ {t}]],
                 t, Tail(pids))

\* A thread has run into assert(false) or read through a null pointer: the
\* process is gone.
Crashed == \E t \in Walkers : threads[t].pc = "crashed"

\* The key of a thread's next Insert: its keys in ascending order.
NextKey(t) ==
  threads[t].calls + CHOOSE k \in ThreadKeys(t) : \A j \in ThreadKeys(t) : k <= j

\* Insert(key, value, transaction) up to FindLeafPage: the IsEmpty() test,
\* unlocked.
CallInsertOf(t, key) ==
  /\ ~Crashed
  /\ threads[t].pc = "idle"
  /\ threads' = [threads EXCEPT ![t] =
                   [NoThreadCall EXCEPT
                      !.pc = IF IsEmpty(root) THEN "start" ELSE "find",
                      !.op = "Insert", !.key = key,
                      !.ret = IsEmpty(root),
                      !.calls = threads[t].calls,
                      !.inserted = threads[t].inserted]]
  /\ UNCHANGED <<pages, root, ref, last, mutex, latches>>
  /\ UNCHANGED nonIndexVars

CallInsert(t) ==
  /\ NextKey(t) \in ThreadKeys(t)
  /\ CallInsertOf(t, NextKey(t))

\* StartNewTree up to InsertIntoLeaf: under mutex_, a root leaf if there is
\* still none.
StartTree(t) ==
  /\ ~Crashed
  /\ threads[t].pc = "start"
  /\ mutex = 0
  /\ IF root = INVALID_PAGE_ID
       THEN /\ pages' = [pages EXCEPT ![NewPageId(pages)] = LeafInit(INVALID_PAGE_ID)]
            /\ root' = NewPageId(pages)
       ELSE UNCHANGED <<pages, root>>
  /\ threads' = [threads EXCEPT ![t].pc = "find"]
  /\ UNCHANGED <<ref, last, mutex, latches>>
  /\ UNCHANGED nonIndexVars

\* GetValue(key, result, transaction) up to FindLeafPage.
CallGetValue(t, key) ==
  /\ ~Crashed
  /\ threads[t].pc = "idle"
  /\ threads' = [threads EXCEPT ![t] =
                   [NoThreadCall EXCEPT !.pc = "find", !.op = "GetValue",
                                        !.key = key]]
  /\ UNCHANGED <<pages, root, ref, last, mutex, latches>>
  /\ UNCHANGED nonIndexVars

\* FindLeafPage, its head: on an empty tree assert(false), and the null
\* pointer for GetValue to read through; else root_page_id_ read under
\* mutex_ and the page fetched.
FindRoot(t) ==
  /\ ~Crashed
  /\ threads[t].pc = "find"
  /\ IF IsEmpty(root)
       THEN threads' = [threads EXCEPT ![t].pc = "crashed"]
       ELSE /\ mutex = 0
            /\ threads' = [threads EXCEPT ![t].pc = "latch", ![t].page_id = root]
  /\ UNCHANGED <<pages, root, ref, last, mutex, latches>>
  /\ UNCHANGED nonIndexVars

\* page->WLatch() or RLatch() on what was read as the root
LatchRoot(t) ==
  /\ ~Crashed
  /\ threads[t].pc = "latch"
  /\ CanLatch(threads[t].op, threads[t].page_id)
  /\ latches' = Latched(latches, t, threads[t].op, threads[t].page_id)
  /\ threads' = [threads EXCEPT ![t].pc = "check"]
  /\ UNCHANGED <<pages, root, ref, last, mutex>>
  /\ UNCHANGED nonIndexVars

\* while (page_id != root_page_id_): unlatch, read root_page_id_ again
\* (not under mutex_) and fetch, which for INVALID_PAGE_ID gives no page to
\* latch; else the loop is left.
CheckRoot(t) ==
  /\ ~Crashed
  /\ threads[t].pc = "check"
  /\ IF threads[t].page_id # root
       THEN /\ latches' = Unlatched(latches, t, <<threads[t].page_id>>)
            /\ threads' = [threads EXCEPT
                             ![t].pc = IF root = INVALID_PAGE_ID THEN "crashed"
                                       ELSE "latch",
                             ![t].page_id = root]
       ELSE /\ threads' = [threads EXCEPT ![t].pc = "add"]
            /\ UNCHANGED latches
  /\ UNCHANGED <<pages, root, ref, last, mutex>>
  /\ UNCHANGED nonIndexVars

\* transaction->AddIntoPageSet(page) behind the loop.
AddRoot(t) ==
  /\ ~Crashed
  /\ threads[t].pc = "add"
  /\ threads' = [threads EXCEPT ![t].pc = "walk",
                                ![t].pageSet = <<threads[t].page_id>>]
  /\ UNCHANGED <<pages, root, ref, last, mutex, latches>>
  /\ UNCHANGED nonIndexVars

\* The page a thread is on: the last of its page set.
Here(t) == pages[threads[t].page_id]

\* FindLeafPage, the test under which the latches above the child are
\* released: always for kFind, for kInsert a child with room for an entry,
\* for kDelete a child with an entry to spare.
Safe(op, btree_page) ==
  CASE op = "GetValue" -> TRUE
    [] op = "Insert"   -> btree_page.maxSize > btree_page.size
    [] op = "Remove"   -> GetMinSize(btree_page) < btree_page.size

\* FindLeafPage, a turn of its while (!btree_page->IsLeafPage()): Lookup,
\* the latch on the child, and by the operation and the child's size
\* ReleaseAllLatches of what is held above it.
WalkTo(t, child) ==
  LET safe == Safe(threads[t].op, pages[child])
  IN  /\ CanLatch(threads[t].op, child)
      /\ latches' =
           Latched(IF safe THEN Unlatched(latches, t, threads[t].pageSet)
                   ELSE latches,
                   t, threads[t].op, child)
      /\ threads' = [threads EXCEPT
                       ![t].page_id = child,
                       ![t].pageSet = IF safe THEN <<child>>
                                      ELSE Append(@, child)]

\* Lookup on a page that PopulateNewRoot has not filled yet returns
\* array[0].second, a slot nothing was written to: any page id, of a page of
\* the tree (the thread walks on from there) or of none (the thread has
\* left the tree).
Walk(t) ==
  /\ ~Crashed
  /\ threads[t].pc = "walk"
  /\ ~Here(t).isLeaf
  /\ IF Here(t).size = 0
       THEN \E child \in DOMAIN pages \cup {INVALID_PAGE_ID} :
              IF child \in DOMAIN pages /\ pages[child].live
                   /\ child # threads[t].page_id
                THEN WalkTo(t, child)
                ELSE /\ threads' = [threads EXCEPT ![t].pc = "stray"]
                     /\ UNCHANGED latches
       ELSE WalkTo(t, InternalLookup(Here(t), threads[t].key))
  /\ UNCHANGED <<pages, root, ref, last, mutex>>
  /\ UNCHANGED nonIndexVars

\* Every page from node up to a root is a slot of its parent: what
\* InsertIntoParent and CoalesceOrRedistribute take for granted when they
\* look node up in its parent with ValueIndex.
RECURSIVE Attached(_, _)
Attached(pg, node) ==
  LET parent_id == pg[node].parent
  IN  \/ parent_id = INVALID_PAGE_ID
      \/ /\ pg[parent_id].live
         /\ ~pg[parent_id].isLeaf
         /\ ValueIndex(pg[parent_id], node) >= 0
         /\ Attached(pg, parent_id)

\* A thread that works on a page which is not attached reads slots that
\* nothing was written to: it has left the tree.
Strays(t) ==
  /\ threads' = [threads EXCEPT ![t].pc = "stray"]
  /\ UNCHANGED <<pages, root, mutex, latches>>

\* InsertIntoLeaf behind FindLeafPage: the insert into the leaf, the splits
\* and InsertIntoParent; for a new root up to root_page_id_ = parent_pid,
\* with mutex_ taken and the new root initialized and still empty.
InsertLeaf(t) ==
  /\ ~Crashed
  /\ threads[t].pc = "walk"
  /\ threads[t].op = "Insert"
  /\ Here(t).isLeaf
  /\ LET done == InsertIntoLeafAt(Tree, threads[t].page_id, threads[t].key,
                                  RidOf(threads[t].key))
     IN  IF ~Attached(pages, threads[t].page_id) THEN Strays(t)
         ELSE IF done.t.root # root
           THEN /\ mutex = 0
                /\ mutex' = t
                /\ root' = done.t.root
                /\ pages' = [done.t.pg EXCEPT
                               ![done.t.root] = InternalInit(INVALID_PAGE_ID)]
                /\ threads' = [threads EXCEPT
                                 ![t].pc = "populate",
                                 ![t].newRoot = done.t.pg[done.t.root],
                                 ![t].ret = @ \/ done.ret]
                /\ UNCHANGED latches
           ELSE /\ pages' = done.t.pg
                /\ threads' = [threads EXCEPT ![t].pc = "release",
                                              ![t].ret = @ \/ done.ret]
                /\ UNCHANGED <<root, mutex, latches>>
  /\ UNCHANGED <<ref, last>>
  /\ UNCHANGED nonIndexVars

\* InsertIntoParent, the rest of its new-root block: PopulateNewRoot, and
\* mutex_ is released.
PopulateRoot(t) ==
  /\ ~Crashed
  /\ threads[t].pc = "populate"
  /\ pages' = [pages EXCEPT ![root] = threads[t].newRoot]
  /\ mutex' = 0
  /\ threads' = [threads EXCEPT ![t].pc = "release", ![t].newRoot = FreePage]
  /\ UNCHANGED <<root, ref, last, latches>>
  /\ UNCHANGED nonIndexVars

\* ReleaseAllLatches at the end of InsertIntoLeaf, and Insert returns;
\* inserted records the key of an Insert that has returned true.
ReleaseInsert(t) ==
  /\ ~Crashed
  /\ threads[t].pc = "release"
  /\ latches' = Unlatched(latches, t, threads[t].pageSet)
  /\ threads' = [threads EXCEPT ![t] =
                   [NoThreadCall EXCEPT
                      !.calls = threads[t].calls + 1,
                      !.inserted = threads[t].inserted \cup
                                     IF threads[t].ret THEN {threads[t].key}
                                     ELSE {}]]
  /\ UNCHANGED <<pages, root, ref, last, mutex>>
  /\ UNCHANGED nonIndexVars

\* GetValue behind FindLeafPage: leaf->Lookup, ReleaseAllLatches, return.
LookupLeaf(t) ==
  /\ ~Crashed
  /\ threads[t].pc = "walk"
  /\ threads[t].op = "GetValue"
  /\ Here(t).isLeaf
  /\ latches' = Unlatched(latches, t, threads[t].pageSet)
  /\ threads' = [threads EXCEPT ![t] = NoThreadCall]
  /\ UNCHANGED <<pages, root, ref, last, mutex>>
  /\ UNCHANGED nonIndexVars

ConcNext ==
  \/ \E t \in Inserters :
       \/ CallInsert(t)
       \/ StartTree(t)
       \/ InsertLeaf(t)
       \/ PopulateRoot(t)
       \/ ReleaseInsert(t)
  \/ \E key \in ReaderKeys : CallGetValue(Reader, key)
  \/ LookupLeaf(Reader)
  \/ \E t \in Threads :
       \/ FindRoot(t)
       \/ LatchRoot(t)
       \/ CheckRoot(t)
       \/ AddRoot(t)
       \/ Walk(t)

\* The keys whose Insert has returned true.
Inserted == UNION {threads[t].inserted : t \in Threads}

\* C6: with threads inserting disjoint keys through transactions and a
\* thread reading, no call leaves the tree (every call comes to its end on
\* pages of the tree), and once every call has returned GetValue finds
\* every key whose Insert has returned true.
C6_ConcurrentInserts ==
  /\ \A t \in Threads : threads[t].pc # "stray"
  /\ (\A t \in Threads : threads[t].pc = "idle") =>
        \A k \in Inserted : GetValue(Tree, k).found


(***************************************************************************)
(* Remove(key, transaction), and Insert of a key that another thread       *)
(* inserts too.  Page (its latch) and the buffer pool are not among the    *)
(* sources: a WUnlatch by a thread that does not hold the latch leaves     *)
(* the latch as it is or takes it from the thread that holds it.           *)
(***************************************************************************)
RemoverKeys == 1..MaxRemoveKey

Range(s) == {s[i] : i \in DOMAIN s}

\* CoalesceOrRedistribute with a transaction: [t, ret] as without one, the
\* siblings it has latched and put into the page set (latched), the pages it
\* has put into the deleted page set (deleted) instead of deleting them,
\* and whether it has come to AdjustRoot, which takes mutex_ (adjusts).
RECURSIVE CoalesceOrRedistributeTxn(_, _)
CoalesceOrRedistributeTxn(t, node) ==
  LET pg        == t.pg
      parent_id == pg[node].parent
  IN  IF pg[node].size >= GetMinSize(pg[node])
      THEN [t |-> t, ret |-> FALSE, latched |-> << >>, deleted |-> {},
            adjusts |-> FALSE]
      ELSE IF parent_id = INVALID_PAGE_ID
      THEN [t |-> AdjustRoot(t, node).t, ret |-> AdjustRoot(t, node).ret,
            latched |-> << >>, deleted |-> {}, adjusts |-> TRUE]
      ELSE
        LET parent    == pg[parent_id]
            idx       == ValueIndex(parent, node)
            hasLeft   == idx >= 1
            left_sib  == IF hasLeft THEN ValueAt(parent, idx - 1) ELSE INVALID_PAGE_ID
            hasRight  == idx + 1 < parent.size
            right_sib == IF hasRight THEN ValueAt(parent, idx + 1) ELSE INVALID_PAGE_ID
            left      == IF hasLeft THEN <<left_sib>> ELSE << >>
            right     == IF hasRight THEN <<right_sib>> ELSE << >>
        IN  IF hasLeft /\ pg[left_sib].size > GetMinSize(pg[left_sib])
            THEN [t   |-> [pg |-> Redistribute(pg, left_sib, node, 1), root |-> t.root],
                  ret |-> FALSE, latched |-> left, deleted |-> {},
                  adjusts |-> FALSE]
            ELSE IF hasRight /\ pg[right_sib].size > GetMinSize(pg[right_sib])
            THEN [t   |-> [pg |-> Redistribute(pg, right_sib, node, 0), root |-> t.root],
                  ret |-> FALSE, latched |-> left \o right, deleted |-> {},
                  adjusts |-> FALSE]
            ELSE
              LET pg1 == IF hasLeft
                         THEN Coalesce(pg, left_sib, node, parent_id, 0)
                         ELSE Coalesce(pg, right_sib, node, parent_id, 1)
                  r   == CoalesceOrRedistributeTxn([pg |-> pg1, root |-> t.root],
                                                   parent_id)
              IN  [t   |-> r.t, ret |-> TRUE,
                   latched |-> left \o right \o r.latched,
                   deleted |-> r.deleted \cup (IF r.ret THEN {parent_id} ELSE {}),
                   adjusts |-> r.adjusts]

\* Remove(key, transaction) up to FindLeafPage: the IsEmpty() test,
\* unlocked, and on an empty tree the return.
CallRemove(t, key) ==
  /\ ~Crashed
  /\ threads[t].pc = "idle"
  /\ threads' = [threads EXCEPT ![t] =
                   IF IsEmpty(root) THEN NoThreadCall
                   ELSE [NoThreadCall EXCEPT !.pc = "find", !.op = "Remove",
                                             !.key = key]]
  /\ UNCHANGED <<pages, root, ref, last, mutex, latches>>
  /\ UNCHANGED nonIndexVars

\* What Remove does to the tree behind FindLeafPage, on the leaf it has
\* come to.
RemoveAt(t, leaf, key) ==
  LET pg1 == [t.pg EXCEPT ![leaf] = LeafRemoveAndDeleteRecord(@, key)]
      t1  == [pg |-> pg1, root |-> t.root]
  IN  IF pg1[leaf].size < GetMinSize(pg1[leaf])
      THEN LET r == CoalesceOrRedistributeTxn(t1, leaf)
           IN  [r EXCEPT !.deleted = @ \cup (IF r.ret THEN {leaf} ELSE {})]
      ELSE [t |-> t1, ret |-> FALSE, latched |-> << >>, deleted |-> {},
            adjusts |-> FALSE]

\* Remove behind FindLeafPage: RemoveAndDeleteRecord and
\* CoalesceOrRedistribute, which waits for the latches of the siblings and
\* in AdjustRoot for mutex_.
RemoveLeaf(t) ==
  /\ ~Crashed
  /\ threads[t].pc = "walk"
  /\ threads[t].op = "Remove"
  /\ Here(t).isLeaf
  /\ LET done == RemoveAt(Tree, threads[t].page_id, threads[t].key)
     IN  IF ~Attached(pages, threads[t].page_id) THEN Strays(t)
         ELSE /\ \A pid \in Range(done.latched) : latches[pid] = NoLatch
              /\ done.adjusts => mutex = 0
              /\ pages' = done.t.pg
              /\ root' = done.t.root
              /\ latches' = [pid \in DOMAIN latches |->
                               IF pid \in Range(done.latched)
                               THEN [w |-> t, r |-> {}] ELSE latches[pid]]
              /\ threads' = [threads EXCEPT ![t].pc = "release",
                                            ![t].pageSet = @ \o done.latched,
                                            ![t].deleted = done.deleted]
              /\ UNCHANGED mutex
  /\ UNCHANGED <<ref, last>>
  /\ UNCHANGED nonIndexVars

\* ReleaseAllLatches(transaction, kDelete), its first loop: WUnlatch and
\* unpin of every page of the page set.
ReleaseRemove(t) ==
  /\ ~Crashed
  /\ threads[t].pc = "release"
  /\ threads[t].op = "Remove"
  /\ latches' = Unlatched(latches, t, threads[t].pageSet)
  /\ threads' = [threads EXCEPT ![t] =
                   IF threads[t].deleted = {} THEN NoThreadCall
                   ELSE [@ EXCEPT !.pc = "delete", !.pageSet = << >>]]
  /\ UNCHANGED <<pages, root, ref, last, mutex>>
  /\ UNCHANGED nonIndexVars

\* ReleaseAllLatches(transaction, kDelete), its second loop: every page of
\* the deleted page set is fetched, WUnlatch'ed, unpinned and deleted, and
\* Remove returns; unheld records the pages whose latch the thread did not
\* hold at this WUnlatch.
DeleteRemoved(t) ==
  /\ ~Crashed
  /\ threads[t].pc = "delete"
  /\ \E kept \in SUBSET {pid \in threads[t].deleted : latches[pid].w \notin {0, t}} :
       latches' = [pid \in DOMAIN latches |->
                     IF pid \in threads[t].deleted \ kept
                     THEN [latches[pid] EXCEPT !.w = 0] ELSE latches[pid]]
  /\ pages' = [pid \in DOMAIN pages |->
                 IF pid \in threads[t].deleted THEN FreePage ELSE pages[pid]]
  /\ threads' = [threads EXCEPT ![t] =
                   [NoThreadCall EXCEPT
                      !.unheld = {pid \in threads[t].deleted : latches[pid].w # t}]]
  /\ UNCHANGED <<root, ref, last, mutex>>
  /\ UNCHANGED nonIndexVars

\* The second inserter's call in this workload: the first key of thread 1.
DupKey == CHOOSE k \in ThreadKeys(1) : \A j \in ThreadKeys(1) : k <= j

TxnNext ==
  \/ NextKey(1) <= MaxTxnKey /\ CallInsertOf(1, NextKey(1))
  \/ threads[2].calls = 0 /\ CallInsertOf(2, DupKey)
  \/ \E t \in Inserters :
       \/ StartTree(t)
       \/ InsertLeaf(t)
       \/ PopulateRoot(t)
       \/ ReleaseInsert(t)
  \/ \E key \in RemoverKeys : CallRemove(Remover, key)
  \/ RemoveLeaf(Remover)
  \/ ReleaseRemove(Remover)
  \/ DeleteRemoved(Remover)
  \/ \E t \in Inserters \cup {Remover} :
       \/ FindRoot(t)
       \/ LatchRoot(t)
       \/ CheckRoot(t)
       \/ AddRoot(t)
       \/ Walk(t)


\* The pages from node up to the root.
RECURSIVE PathUp(_, _)
PathUp(pg, node) ==
  {node} \cup (IF pg[node].parent = INVALID_PAGE_ID THEN {}
               ELSE PathUp(pg, pg[node].parent))

Writers == Inserters \cup {Remover}

\* A step of FindLeafPage from a page to its child.
Descends(t) ==
  /\ threads[t].pc = "walk"
  /\ threads'[t].pc = "walk"
  /\ threads'[t].page_id # threads[t].page_id

\* A step of InsertIntoLeaf or Remove on the leaf that FindLeafPage returned.
WritesLeaf(t) ==
  /\ threads[t].pc = "walk"
  /\ threads'[t].pc \in {"release", "populate"}

Holds(t, pid) ==
  IF threads[t].op = "GetValue" THEN t \in latches[pid].r
  ELSE latches[pid].w = t

\* C26: every release of a page latch by an operation of the index matches
\* an acquisition before it, by the same operation and in the same mode:
\* every page in a thread's page set (the pages that ReleaseAllLatches will
\* unlatch, siblings latched by Remove among them) is there once and is
\* latched by the thread, and no WUnlatch of a page of the deleted page set
\* is made without the latch being held.
C26_LatchesPaired ==
  \A t \in Walkers :
    /\ threads[t].unheld = {}
    /\ \A pid \in Range(threads[t].pageSet) : Holds(t, pid)
    /\ Cardinality(Range(threads[t].pageSet)) = Len(threads[t].pageSet)

\* A step of a thread in FindLeafPage's loop on what it has latched as the
\* root.
LeavesCheck(t) ==
  /\ threads[t].pc = "check"
  /\ threads'[t].pc # "check"

\* C27: a descent with a transaction starts from the current root: when
\* FindLeafPage puts its first latched page into the page set, the page is
\* the one root_page_id_ names, whatever other threads have done to the
\* root since the page was fetched (a root split, AdjustRoot promoting a
\* child or emptying the tree); and a thread that finds root_page_id_
\* changed lets go of its page and goes on with the page that
\* root_page_id_ names now.
C27_StartsAtRoot ==
  [][\A t \in Walkers :
       /\ (threads[t].pc = "add" /\ threads'[t].pc = "walk") =>
            /\ threads'[t].pageSet = <<root>>
            /\ pages[root].live
            /\ Holds(t, root)
       /\ (LeavesCheck(t) /\ threads[t].page_id # root) =>
            /\ threads'[t].pc = "latch"
            /\ threads'[t].page_id = root
            /\ root \in DOMAIN pages
            /\ ~Holds(t, threads[t].page_id)']_vars

(***************************************************************************)
(* SpecDup: two threads insert, the second one the first key of thread 1,  *)
(* and nothing is removed.                                                 *)
(***************************************************************************)
DupNext ==
  \/ NextKey(1) <= MaxTxnKey /\ CallInsertOf(1, NextKey(1))
  \/ threads[2].calls = 0 /\ CallInsertOf(2, DupKey)
  \/ \E t \in Inserters :
       \/ StartTree(t)
       \/ FindRoot(t)
       \/ LatchRoot(t)
       \/ CheckRoot(t)
       \/ AddRoot(t)
       \/ Walk(t)
       \/ InsertLeaf(t)
       \/ PopulateRoot(t)
       \/ ReleaseInsert(t)

\* A thread's Insert of DupKey has returned.
ReturnedDup(t) == threads[t].calls >= 1

\* C28: Insert returns true exactly when it has added the key: of the two
\* calls that insert the same key, into an empty tree too, once both have
\* returned one has returned true and the other false.
C28_OneInsertWins ==
  (ReturnedDup(1) /\ ReturnedDup(2)) =>
    Cardinality({t \in Inserters : DupKey \in threads[t].inserted}) = 1

(***************************************************************************)
(* The extendible hash table (extendible_hash.cpp), instantiated for int   *)
(* keys.  A Bucket is [local_depth, map_], map_ giving each key its value  *)
(* or 0; the directory holds the number of the bucket each slot points     *)
(* to.  Every call runs under latch_ and is one step.                      *)
(***************************************************************************)
HashKeys == 0..(2^HashBits - 1)

HashValues == 1..MaxHashValue

BucketIds == 1..(2^HashBits + 2)

NoBucket == [local_depth |-> -1, map_ |-> [k \in HashKeys |-> 0]]

\* Bucket(depth)
Bucket(depth) == [local_depth |-> depth, map_ |-> [k \in HashKeys |-> 0]]

\* map_.size()
MapSize(b) == Cardinality({k \in HashKeys : b.map_[k] # 0})

\* std::hash<int>: the value itself.
HashKey(key) == key

\* mask & x, for a mask of one bit
And(mask, x) == (x \div mask) % 2 = 1

GetBucketIndex(hash_value, depth) == hash_value % (2^depth)

\* The table as the routines pass it along.
HashTable == [global_depth |-> global_depth, bucket_directory |-> bucket_directory,
              buckets |-> buckets]

\* GetBucket(key): the bucket of the key's slot (slots count from 0)
GetBucket(t, key) ==
  t.bucket_directory[GetBucketIndex(HashKey(key), t.global_depth) + 1]

NoHashCall == [op |-> "none", key |-> 0, value |-> 0, ret |-> FALSE,
               present |-> FALSE, returned |-> TRUE]

HashInit ==
  /\ size_limit = 0
  /\ global_depth = 0
  /\ bucket_directory = <<>>
  /\ buckets = [b \in BucketIds |-> NoBucket]
  /\ hashRef = [k \in HashKeys |-> 0]
  /\ hashLast = NoHashCall

\* ExtendibleHash(size): one bucket of depth 0 in a directory of one slot
ExtendibleHash(size) ==
  /\ size_limit = 0
  /\ size_limit' = size
  /\ global_depth' = 0
  /\ bucket_directory' = <<1>>
  /\ buckets' = [buckets EXCEPT ![1] = Bucket(0)]
  /\ UNCHANGED <<hashRef, hashLast>>
  /\ UNCHANGED nonHashVars

\* Find(key, value)
Find(t, key) ==
  LET bucket == t.buckets[GetBucket(t, key)]
  IN  [found |-> bucket.map_[key] # 0, value |-> bucket.map_[key]]

\* std::make_shared<Bucket>: a bucket nothing points to yet, other than
\* those in taken
NewBucket(t, taken) ==
  CHOOSE b \in BucketIds \ taken :
    /\ t.buckets[b] = NoBucket
    /\ \A c \in BucketIds \ taken : t.buckets[c] = NoBucket => b <= c

\* A variant of the doubling that appends the directory back to front.
RECURSIVE Reversed(_)
Reversed(s) == IF s = <<>> THEN <<>> ELSE Append(Reversed(Tail(s)), Head(s))

DoubledBackwards(t) ==
  [t EXCEPT !.bucket_directory = @ \o Reversed(@), !.global_depth = @ + 1]

\* Insert, the directory doubled: a copy of itself is appended.
Doubled(t) ==
  [t EXCEPT !.bucket_directory = @ \o @, !.global_depth = @ + 1]

\* A variant of the partition that tests the bit above the mask.
SideOfNextBit(bucket, mask, right) ==
  [Bucket(bucket.local_depth + 1) EXCEPT
     !.map_ = [k \in HashKeys |->
                 IF bucket.map_[k] # 0 /\ And(2 * mask, HashKey(k)) = right
                 THEN bucket.map_[k] ELSE 0]]

\* Insert, the partition of a bucket's entries by the bit mask of the hash
SideOf(bucket, mask, right) ==
  [Bucket(bucket.local_depth + 1) EXCEPT
     !.map_ = [k \in HashKeys |->
                 IF bucket.map_[k] # 0 /\ And(mask, HashKey(k)) = right
                 THEN bucket.map_[k] ELSE 0]]

\* Insert, one turn of its while loop for the full bucket b: the directory
\* is doubled if the bucket is as deep as the directory, the entries go to
\* two new buckets, and the slots of b are retargeted by the bit mask of
\* the slot index.  Nothing points to b afterwards.
SplitBucket(t, b) ==
  LET bucket == t.buckets[b]
      d == IF bucket.local_depth = t.global_depth THEN Doubled(t) ELSE t
      mask == 2^bucket.local_depth
      left_bucket == NewBucket(t, {b})
      right_bucket == NewBucket(t, {b, left_bucket})
  IN  [d EXCEPT
         !.buckets = [@ EXCEPT ![left_bucket] = SideOf(bucket, mask, FALSE),
                               ![right_bucket] = SideOf(bucket, mask, TRUE),
                               ![b] = NoBucket],
         !.bucket_directory =
            [i \in 1..Len(d.bucket_directory) |->
               IF d.bucket_directory[i] = b
               THEN (IF And(mask, i - 1) THEN right_bucket ELSE left_bucket)
               ELSE d.bucket_directory[i]]]

\* Insert's while loop never ends: every entry of the full bucket has the
\* hash of the key (or no bit of the hash is left to part them), so each
\* turn leaves the key's bucket as full as it was and doubles the directory.
NeverParts(bucket, key) ==
  \/ bucket.local_depth >= HashBits
  \/ \A k \in HashKeys : bucket.map_[k] # 0 => HashKey(k) = HashKey(key)

\* Insert, its while (bucket->map_.size() == size_limit_) loop
RECURSIVE InsertLoop(_, _)
InsertLoop(t, key) ==
  LET b == GetBucket(t, key)
  IN  IF MapSize(t.buckets[b]) # size_limit THEN [t |-> t, returned |-> TRUE]
      ELSE IF NeverParts(t.buckets[b], key) THEN [t |-> t, returned |-> FALSE]
      ELSE InsertLoop(SplitBucket(t, b), key)

\* The buckets numbered by the first slot that points to them: which
\* address a bucket has makes no difference.
FirstSlot(t, b) ==
  CHOOSE i \in 1..Len(t.bucket_directory) :
    /\ t.bucket_directory[i] = b
    /\ \A j \in 1..(i - 1) : t.bucket_directory[j] # b

Pointed(t) == {t.bucket_directory[i] : i \in 1..Len(t.bucket_directory)}

Rank(t, b) ==
  Cardinality({c \in Pointed(t) : FirstSlot(t, c) <= FirstSlot(t, b)})

Renumbered(t) ==
  [t EXCEPT
     !.bucket_directory = [i \in 1..Len(t.bucket_directory) |->
                             Rank(t, t.bucket_directory[i])],
     !.buckets = [r \in BucketIds |->
                    IF \E b \in Pointed(t) : Rank(t, b) = r
                    THEN t.buckets[CHOOSE b \in Pointed(t) : Rank(t, b) = r]
                    ELSE NoBucket]]

\* Insert(key, value)
HashInsert(key, value) ==
  /\ size_limit # 0
  /\ hashLast.returned
  /\ LET loop == InsertLoop(HashTable, key)
         b == GetBucket(loop.t, key)
         done == Renumbered([loop.t EXCEPT !.buckets[b].map_[key] = value])
     IN  IF loop.returned
         THEN /\ global_depth' = done.global_depth
              /\ bucket_directory' = done.bucket_directory
              /\ buckets' = done.buckets
              /\ hashRef' = [hashRef EXCEPT ![key] = value]
              /\ hashLast' = [NoHashCall EXCEPT !.op = "Insert", !.key = key,
                                                !.value = value]
         ELSE /\ hashLast' = [NoHashCall EXCEPT !.op = "Insert", !.key = key,
                                                !.value = value,
                                                !.returned = FALSE]
              /\ UNCHANGED <<global_depth, bucket_directory, buckets, hashRef>>
  /\ UNCHANGED size_limit
  /\ UNCHANGED nonHashVars

\* Remove(key)
HashRemove(key) ==
  /\ size_limit # 0
  /\ hashLast.returned
  /\ LET b == GetBucket(HashTable, key)
     IN  /\ buckets' = [buckets EXCEPT ![b].map_[key] = 0]
         /\ hashLast' = [NoHashCall EXCEPT !.op = "Remove", !.key = key,
                                           !.ret = buckets[b].map_[key] # 0,
                                           !.present = hashRef[key] # 0]
  /\ hashRef' = [hashRef EXCEPT ![key] = 0]
  /\ UNCHANGED <<size_limit, global_depth, bucket_directory>>
  /\ UNCHANGED nonHashVars

\* Find(key, value), called
HashFind(key) ==
  /\ size_limit # 0
  /\ hashLast.returned
  /\ hashLast' = [NoHashCall EXCEPT !.op = "Find", !.key = key,
                                    !.ret = Find(HashTable, key).found,
                                    !.value = Find(HashTable, key).value]
  /\ UNCHANGED <<size_limit, global_depth, bucket_directory, buckets, hashRef>>
  /\ UNCHANGED nonHashVars

HashNext ==
  \/ \E size \in 1..MaxSizeLimit : ExtendibleHash(size)
  \/ \E key \in HashKeys, value \in HashValues : HashInsert(key, value)
  \/ \E key \in HashKeys : HashRemove(key)
  \/ \E key \in HashKeys : HashFind(key)

(***************************************************************************)
(* C16                                                                     *)
(***************************************************************************)
\* C16: every call returns, and Find agrees with the reference map: it
\* finds exactly the keys inserted and not removed since, each with the
\* value of its last Insert, and Remove returns true exactly when the key
\* was present.
C16_FindAgreesWithMap ==
  /\ hashLast.returned
  /\ size_limit # 0 =>
       \A k \in HashKeys :
         /\ Find(HashTable, k).found = (hashRef[k] # 0)
         /\ Find(HashTable, k).value = hashRef[k]
  /\ hashLast.op = "Remove" => hashLast.ret = hashLast.present
  /\ hashLast.op = "Find" =>
       /\ hashLast.ret = (hashRef[hashLast.key] # 0)
       /\ hashLast.value = hashRef[hashLast.key]

(***************************************************************************)
(* C17                                                                     *)
(***************************************************************************)
\* The low depth bits of x
LowBits(x, depth) == x % (2^depth)

\* C17: the directory is well formed.  It has 2^global_depth slots; every
\* bucket is at most as deep as the directory; two slots point to the same
\* bucket exactly when their indices agree on the low local_depth bits; and
\* the hash of every key of the bucket at slot i agrees with i on them.
C17_DirectoryWellFormed ==
  size_limit # 0 =>
    /\ Len(bucket_directory) = 2^global_depth
    /\ \A i \in 1..Len(bucket_directory) :
         LET bucket == buckets[bucket_directory[i]]
         IN  /\ bucket.local_depth >= 0
             /\ bucket.local_depth <= global_depth
             /\ \A j \in 1..Len(bucket_directory) :
                  (bucket_directory[j] = bucket_directory[i])
                    = (LowBits(j - 1, bucket.local_depth)
                         = LowBits(i - 1, bucket.local_depth))
             /\ \A k \in HashKeys :
                  bucket.map_[k] # 0 =>
                    LowBits(HashKey(k), bucket.local_depth)
                      = LowBits(i - 1, bucket.local_depth)

\* An Insert has returned with the directory at its full depth, a bucket
\* less deep than the directory that two slots share, and a bucket as deep
\* as the directory that holds a key.
C17_Witness ==
  /\ hashLast.op = "Insert" /\ hashLast.returned
  /\ global_depth = HashBits
  /\ \E i, j \in 1..Len(bucket_directory) :
       /\ i # j /\ bucket_directory[i] = bucket_directory[j]
       /\ buckets[bucket_directory[i]].local_depth < global_depth
  /\ \E i \in 1..Len(bucket_directory) :
       /\ buckets[bucket_directory[i]].local_depth = global_depth
       /\ MapSize(buckets[bucket_directory[i]]) > 0

(***************************************************************************)
(* C32                                                                     *)
(***************************************************************************)
\* The keys of the overflow scenario, in the order of their Inserts: with
\* std::hash<int> their hashes are 0b00, 0b10, 0b01, 0b11.
OverflowKeys == <<0, 2, 1, 3>>

\* How many keys of the scenario have been inserted.
OverflowDone == Cardinality({k \in HashKeys : hashRef[k] # 0})

\* The next Insert of the scenario.
OverflowInsert(value) ==
  /\ OverflowDone < Len(OverflowKeys)
  /\ HashInsert(OverflowKeys[OverflowDone + 1], value)

\* The scenario: a table of size_limit 2, the four Inserts in their order,
\* and Finds at any time.
OverflowNext ==
  \/ ExtendibleHash(2)
  \/ \E value \in HashValues : OverflowInsert(value)
  \/ \E key \in HashKeys : HashFind(key)

\* All four keys are in the table, every bucket holds at most size_limit
\* entries, and Find gives each key its value.
OverflowAllFound ==
  /\ \A i \in 1..Len(bucket_directory) :
       MapSize(buckets[bucket_directory[i]]) <= size_limit
  /\ \A i \in 1..Len(OverflowKeys) :
       /\ Find(HashTable, OverflowKeys[i]).found
       /\ Find(HashTable, OverflowKeys[i]).value = hashRef[OverflowKeys[i]]

\* C32, as stated: with size_limit 2, after the Inserts of keys with the
\* hashes 0b00, 0b10, 0b01, 0b11 in that order, global_depth is 2, there
\* are four buckets (GetNumBuckets), each holds at most 2 entries and all
\* four keys are found.
C32_AsStated ==
  OverflowDone = Len(OverflowKeys) =>
    /\ hashLast.returned
    /\ global_depth = 2
    /\ Len(bucket_directory) = 4
    /\ OverflowAllFound

\* C32, amended: after the four Inserts global_depth is 1 and there are two
\* buckets, the one of the even hashes and the one of the odd hashes, each
\* holding 2 entries; all four keys are found.  The bucket overflows once,
\* at the third Insert, and bit 0 of the hash parts its two entries from
\* the new key.
C32_OverflowSplitsOnce ==
  OverflowDone = Len(OverflowKeys) =>
    /\ hashLast.returned
    /\ global_depth = 1
    /\ Len(bucket_directory) = 2
    /\ bucket_directory[1] # bucket_directory[2]
    /\ \A i \in 1..2 : MapSize(buckets[bucket_directory[i]]) = 2
    /\ OverflowAllFound

\* The fourth Insert of the scenario has returned.
C32_Witness ==
  /\ size_limit = 2
  /\ OverflowDone = Len(OverflowKeys)
  /\ hashLast.op = "Insert" /\ hashLast.key = OverflowKeys[4]
  /\ hashLast.returned

(***************************************************************************)
(* C37                                                                     *)
(***************************************************************************)
\* C37: Insert terminates for every key and every size_limit >= 1, also
\* when the key is in a full bucket already: every Insert that is called
\* returns.
C37_InsertTerminates == hashLast.op = "Insert" => hashLast.returned

(***************************************************************************)
(* The LRU replacer (lru_replacer.cpp).  lst_ is a sequence of items, its  *)
(* front first; map_ is the set of items it has an iterator for, the       *)
(* iterator of an item being the node of lst_ that holds it.  Every call   *)
(* runs under latch_ and is one step.                                      *)
(***************************************************************************)
Items == 1..MaxItem

NoLruCall == [op |-> "none", value |-> 0, ret |-> FALSE, out |-> 0,
              refRet |-> FALSE, refOut |-> 0]

LruInit ==
  /\ lst_ = <<>>
  /\ map_ = {}
  /\ lruRef = [x \in Items |-> 0]
  /\ lruLast = NoLruCall

\* lst_.erase(map_[value]): the node of value leaves the list
RECURSIVE ListErase(_, _)
ListErase(l, value) ==
  IF l = <<>> THEN <<>>
  ELSE IF Head(l) = value THEN Tail(l)
  ELSE <<Head(l)>> \o ListErase(Tail(l), value)

\* A variant of push_front that puts the value at the back.
PushBack(l, value) == Append(l, value)

\* lst_.push_front(value)
PushFront(l, value) == <<value>> \o l

\* The reference: each present item has its rank by the time of its latest
\* Insert, 1 for the oldest.
RefSize(r) == Cardinality({x \in Items : r[x] # 0})

RefErase(r, value) ==
  IF r[value] = 0 THEN r
  ELSE [x \in Items |-> IF x = value THEN 0
                        ELSE IF r[x] > r[value] THEN r[x] - 1
                        ELSE r[x]]

RefInsert(r, value) ==
  [RefErase(r, value) EXCEPT ![value] = RefSize(RefErase(r, value)) + 1]

RefOldest(r) == CHOOSE x \in Items : r[x] = 1

\* Insert(value)
LruInsert(value) ==
  /\ lst_' = PushFront(IF value \in map_ THEN ListErase(lst_, value) ELSE lst_,
                       value)
  /\ map_' = map_ \cup {value}
  /\ lruRef' = RefInsert(lruRef, value)
  /\ lruLast' = [NoLruCall EXCEPT !.op = "Insert", !.value = value]
  /\ UNCHANGED nonLruVars

\* Victim(value)
Victim ==
  /\ IF lst_ = <<>>
     THEN /\ lruLast' = [NoLruCall EXCEPT !.op = "Victim",
                                          !.refRet = RefSize(lruRef) # 0]
          /\ UNCHANGED <<lst_, map_, lruRef>>
     ELSE /\ lst_' = SubSeq(lst_, 1, Len(lst_) - 1)
          /\ map_' = map_ \ {lst_[Len(lst_)]}
          /\ lruLast' = [NoLruCall EXCEPT
                           !.op = "Victim", !.ret = TRUE,
                           !.out = lst_[Len(lst_)],
                           !.refRet = RefSize(lruRef) # 0,
                           !.refOut = IF RefSize(lruRef) # 0
                                      THEN RefOldest(lruRef) ELSE 0]
          /\ lruRef' = IF RefSize(lruRef) # 0
                       THEN RefErase(lruRef, RefOldest(lruRef)) ELSE lruRef
  /\ UNCHANGED nonLruVars

\* Erase(value)
Erase(value) ==
  /\ IF value \notin map_
     THEN UNCHANGED <<lst_, map_>>
     ELSE /\ lst_' = ListErase(lst_, value)
          /\ map_' = map_ \ {value}
  /\ lruLast' = [NoLruCall EXCEPT !.op = "Erase", !.value = value,
                                  !.ret = value \in map_,
                                  !.refRet = lruRef[value] # 0]
  /\ lruRef' = RefErase(lruRef, value)
  /\ UNCHANGED nonLruVars

\* Size()
Size ==
  /\ lruLast' = [NoLruCall EXCEPT !.op = "Size", !.out = Cardinality(map_),
                                  !.refOut = RefSize(lruRef)]
  /\ UNCHANGED <<lst_, map_, lruRef>>
  /\ UNCHANGED nonLruVars

LruNext ==
  \/ \E value \in Items : LruInsert(value)
  \/ Victim
  \/ \E value \in Items : Erase(value)
  \/ Size

(***************************************************************************)
(* C18                                                                     *)
(***************************************************************************)
\* C18: the replacer agrees with the reference recency list: every call
\* returns what the reference gives (Victim the present item whose latest
\* Insert is the oldest, or false on an empty replacer; Erase whether the
\* item was present; Size the number of present items), and the list holds
\* every present item once, the more recently inserted nearer the front.
C18_AgreesWithRecency ==
  /\ lruLast.ret = lruLast.refRet
  /\ lruLast.out = lruLast.refOut
  /\ map_ = {x \in Items : lruRef[x] # 0}
  /\ Len(lst_) = RefSize(lruRef)
  /\ \A i \in 1..Len(lst_) : lruRef[lst_[i]] = Len(lst_) - i + 1

\* A Victim has returned an item that is neither the least nor the greatest
\* of those present, which are left in an order that is not that of their
\* values: the order is that of the Inserts.
C18_Witness ==
  /\ lruLast.op = "Victim" /\ lruLast.ret
  /\ Len(lst_) >= 3
  /\ \E i, j \in 1..Len(lst_) : lst_[i] < lruLast.out /\ lruLast.out < lst_[j]
  /\ \E i \in 1..(Len(lst_) - 2) : lst_[i] < lst_[i + 1] /\ lst_[i + 1] > lst_[i + 2]

(***************************************************************************)
(* The specifications.  Each runs one subsystem from its initial state and *)
(* leaves the others as they are constructed.                              *)
(***************************************************************************)
\* Every subsystem as it is constructed; the lock manager in either mode.
Init ==
  /\ TreeInit /\ ConcInit /\ LockInit /\ LogInit /\ RecoveryInit
  /\ HashInit /\ LruInit /\ CodecInit /\ PinInit

\* The lock manager as the index tests construct it.
QuietInit == Init /\ ~strict2PL

SpecTree == QuietInit /\ [][TreeNext]_vars

SpecMap == QuietInit /\ [][MapNext]_vars

SpecConcurrent == QuietInit /\ [][ConcNext]_vars
SpecTxn == QuietInit /\ [][TxnNext]_vars
SpecDup == QuietInit /\ [][DupNext]_vars

SpecPin == QuietInit /\ [][PinNext]_vars

SpecLock == Init /\ [][LockNext]_vars

SpecLog == QuietInit /\ [][LogNext]_vars

\* The flush thread runs on: wait_for ends with its timeout at the latest.
\* A thread inside StopFlushThread gets latch_ in the end: the flush thread
\* leaves it free for LOG_TIMEOUT in every cycle.
SpecStop ==
  /\ QuietInit /\ [][StopNext]_vars
  /\ WF_vars(FlushThreadStep)
  /\ \A c \in Clients : SF_vars(StopStep(c))
SpecAppend == QuietInit /\ [][AppendNext]_vars

SpecRecovery == QuietInit /\ [][RecoveryNext]_vars
SpecRedo == QuietInit /\ [][RedoNext]_vars
SpecScan == QuietInit /\ [][ScanNext]_vars

SpecCodec == QuietInit /\ [][CodecNext]_vars

SpecHash == QuietInit /\ [][HashNext]_vars

SpecOverflow == QuietInit /\ [][OverflowNext]_vars

SpecLru == QuietInit /\ [][LruNext]_vars

====
